---------------------------- MODULE Spec2Model ----------------------------
(***************************************************************************)
(* A model of the ingestion pipeline of bank-reputation-damage-events:     *)
(* the event repository (storage/repository.py), the scheduler             *)
(* (ingestion/orchestrators/scheduler.py) and the connector pipeline       *)
(* (ingestion/connectors/base.py and its subclasses), and the functions of *)
(* ingestion/normalizers/mappings.py, the BankFind identity search and     *)
(* the collector of monthly events (collect_event_data.py).                *)
(*                                                                         *)
(* Several specifications share one set of variables:                      *)
(*   SpecRepo     direct calls of EventRepository.upsert_event             *)
(*   SpecTxn      upsert_event statement by statement on two connections   *)
(*   SpecSched    the scheduler's operations, environment drawn at start   *)
(*   SpecRerun    the scheduler's operations repeated over the same feeds  *)
(*   SpecHealth   the scheduler's operations and health_check              *)
(*   SpecConfidence  the confidence of the event of one item               *)
(*   SpecBackfill run_monthly_backfill over events around month ends       *)
(*   SpecFetch    BaseConnector.fetch_updates, item by item                *)
(*   SpecDiscover discover_items of the regulator connectors               *)
(*   SpecIds      generate_event_id over bounded external ids              *)
(*   SpecNormalize  normalize_item called on different days                *)
(*   SpecScore    calculate_materiality_score over bounded event data      *)
(*   SpecMoney    extract_money_amounts and normalize_money_to_usd         *)
(*   SpecMap      map_category, map_regulator, map_nature, the OCC tags    *)
(*   SpecHttp     _make_request and _make_request_no_retry_404             *)
(*   SpecLoop     the retry loop of fetch_negative_bank_events             *)
(*   SpecContent  the parsing of the collaborator's message content        *)
(*   SpecSchema   _validate_min_schema and the return of the document      *)
(*   SpecIdentity search_institution and resolve_institution_identity      *)
(***************************************************************************)
EXTENDS Integers, Sequences, FiniteSets, TLC

VARIABLES
    events,       \* table events: a set of rows (PRIMARY KEY event_id)
    sources,      \* table sources: event_id -> its rows in insertion order
    last,         \* history: the last upsert_event call and its outcome
    prev,         \* history: the upsert_event call before the last one
    before,       \* history: the two tables as the last call found them
    latest,       \* history: event_id -> the event last upserted for it
    cond,         \* environment: connector -> what its fetch_updates meets
    failing,      \* environment: the event_ids whose upsert_event raises
    report,       \* the report the last scheduler operation returned
    calls,        \* history: the upsert_event calls of that operation
    prevReport,   \* history: the report of the operation before it
    beforeRun,    \* history: the two tables as that operation found them
    site,         \* environment: what a connector's source lists and answers
    fu,           \* the activation of fetch_updates, or of discover_items alone
    client,       \* the connector's _client: "none" or "open"
    made,         \* history: how many httpx.AsyncClient the connector constructed
    runs,         \* history: how many calls of fetch_updates were started
    txn,          \* the connections writing to the database and the write lock
    clients,      \* the scheduler's registry: connector -> its _client, "none" or "open"
    given,        \* the input a function of the normalizers is applied to
    gave          \* what the function returned for it, once applied

repoVars == <<events, sources>>
histVars == <<last, prev, before, latest>>
envVars == <<cond, failing>>
schedVars == <<cond, failing, report, calls>>
rerunVars == <<prevReport, beforeRun>>
fetchVars == <<site, fu, client, made, runs>>
pureVars == <<given, gave>>
vars == <<events, sources, last, prev, before, latest,
          cond, failing, report, calls, prevReport, beforeRun,
          site, fu, client, made, runs, txn, clients, given, gave>>

---------------------------------------------------------------------------
(* Sequences helpers *)

RECURSIVE SeqsUpTo(_, _)
SeqsUpTo(S, n) ==
    IF n = 0 THEN {<<>>}
    ELSE LET shorter == SeqsUpTo(S, n - 1)
         IN shorter \cup {Append(s, x) : s \in {t \in shorter : Len(t) = n - 1}, x \in S}

Range(s) == {s[i] : i \in DOMAIN s}

---------------------------------------------------------------------------
(* Dates: datetime.date as <<year, month, day>> *)

Date(y, m, d) == <<y, m, d>>

\* date.isoformat(): "YYYY-MM-DD"; the text is modelled by the number whose
\* decimal digits are YYYYMMDD, so that the order of the texts is the order
\* of the numbers
IsoFormat(d) == d[1] * 10000 + d[2] * 100 + d[3]

\* date.fromisoformat, as pydantic applies it when it rebuilds an Event
ParseIso(n) == <<n \div 10000, (n \div 100) % 100, n % 100>>

---------------------------------------------------------------------------
(* Events (ingestion/normalizers/events_model.py) *)

None == <<>>
Some(x) == <<x>>

SourceRef(url, title) == [url |-> url, title |-> title]

EventRec(id, title, cats, d, regs, pen, cust, srcs) ==
    [event_id |-> id, title |-> title, categories |-> cats, event_date |-> d,
     regulators |-> regs, penalties_usd |-> pen, customers_affected |-> cust,
     sources |-> srcs]

SrcA == SourceRef("https://orders.fdic.gov/orders/a", "Order A")
SrcB == SourceRef("https://orders.fdic.gov/orders/b", "Order B")
SrcC == SourceRef("https://www.occ.gov/ea/c", "Action C")

\* The events the repository is driven with: two ids, and for the id
\* "fdic-edo-a-2024-02-29" four payloads that differ in the title, the
\* sources, the categories, the penalty and the customers affected
RepoPool ==
    { EventRec("fdic-edo-a-2024-02-29", "Consent Order", <<"regulatory_action">>,
               Date(2024, 2, 29), <<"FDIC">>, 0, None, <<SrcA>>),
      EventRec("fdic-edo-a-2024-02-29", "Consent Order (amended)", <<"regulatory_action", "fine">>,
               Date(2024, 2, 29), <<"FDIC">>, 1000000, None, <<SrcA, SrcB>>),
      EventRec("fdic-edo-a-2024-02-29", "Consent Order", <<"regulatory_action">>,
               Date(2024, 2, 29), <<"FDIC">>, 0, None, <<SrcB>>),
      EventRec("fdic-edo-a-2024-02-29", "Consent Order", <<"regulatory_action">>,
               Date(2024, 2, 29), <<"FDIC">>, 0, Some(5000), <<SrcA, SrcA>>),
      EventRec("occ-enforcement-c-2023-12-31", "Formal Agreement", <<"regulatory_action">>,
               Date(2023, 12, 31), <<"OCC">>, 0, None, <<SrcC>>),
      EventRec("occ-enforcement-c-2023-12-31", "Formal Agreement", <<"fine">>,
               Date(2023, 12, 31), <<"OCC", "FDIC">>, 25000, None, <<SrcC, SrcB>>) }

EventIds == {e.event_id : e \in RepoPool}

\* Event.model_dump_json(): the values of the fields in the order the model
\* declares them, dates in ISO format
SerializeSource(s) == <<s.title, s.url>>
Serialize(e) ==
    <<e.event_id, e.title, e.categories, IsoFormat(e.event_date),
      e.regulators, e.penalties_usd, e.customers_affected,
      [i \in DOMAIN e.sources |-> SerializeSource(e.sources[i])]>>

\* Event(**json.loads(payload))
DeserializeSource(p) == SourceRef(p[2], p[1])
Deserialize(p) ==
    EventRec(p[1], p[2], p[3], ParseIso(p[4]), p[5], p[6], p[7],
             [i \in DOMAIN p[8] |-> DeserializeSource(p[8][i])])

\* json.dumps(list): the text of a JSON array
JsonDumps(xs) == [json_array |-> xs]
JsonLoads(t) == t.json_array

---------------------------------------------------------------------------
(* EventRepository (storage/repository.py) *)

\* SELECT payload FROM events WHERE event_id = ?
SelectPayload(tbl, id) == {r.payload : r \in {x \in tbl : x.event_id = id}}

\* existing[0] == event_json: the byte comparison of the two payloads
PayloadAlwaysDiffers(stored, incoming) == FALSE
PayloadUnchanged(stored, incoming) == stored = incoming

\* INSERT INTO events (...) VALUES (...)
EventRow(e) ==
    [event_id |-> e.event_id,
     payload |-> Serialize(e),
     event_date |-> IsoFormat(e.event_date),
     categories |-> JsonDumps(e.categories),
     regulators |-> JsonDumps(e.regulators),
     penalties_usd |-> e.penalties_usd,
     customers_affected |-> e.customers_affected]
InsertEvent(tbl, e) == tbl \cup {EventRow(e)}

\* UPDATE events SET payload = ? WHERE event_id = ?
UpdateEvent(tbl, e) ==
    {IF r.event_id = e.event_id THEN [r EXCEPT !.payload = Serialize(e)] ELSE r : r \in tbl}

\* one row of table sources
SourceRow(id, s) == [event_id |-> id, url |-> s.url, title |-> s.title]

\* The table sources is kept as the rows of each event_id in the order of
\* their insertion: no statement of the code relates rows of two event_ids.
NoSources == <<>>
SourceRowsOf(tbl, id) == IF id \in DOMAIN tbl THEN tbl[id] ELSE <<>>

\* _upsert_sources: DELETE FROM sources WHERE event_id = ?, then one INSERT
\* for each source in order
UpsertSourcesNoDelete(tbl, id, srcs) ==
    (id :> (SourceRowsOf(tbl, id) \o [i \in DOMAIN srcs |-> SourceRow(id, srcs[i])])) @@ tbl
UpsertSources(tbl, id, srcs) ==
    (id :> [i \in DOMAIN srcs |-> SourceRow(id, srcs[i])]) @@ tbl

\* upsert_event(event): the tables after the call and the value returned
\* cursor.fetchone() of the SELECT: the stored payload, or None
Existing(evTbl, id) ==
    LET found == SelectPayload(evTbl, id)
    IN IF found = {} THEN None ELSE Some(CHOOSE p \in found : TRUE)

UpsertOutcome(evTbl, srcTbl, e) ==
    LET existing == Existing(evTbl, e.event_id)
        event_json == Serialize(e)
    IN IF existing # None /\ PayloadUnchanged(existing[1], event_json)
       THEN [events |-> evTbl, sources |-> srcTbl, ret |-> "false"]
       ELSE [events |-> IF existing # None THEN UpdateEvent(evTbl, e) ELSE InsertEvent(evTbl, e),
             sources |-> UpsertSources(srcTbl, e.event_id, e.sources),
             ret |-> "true"]

\* upsert_event returns
UpsertEvent(e) ==
    LET out == UpsertOutcome(events, sources, e)
    IN /\ events' = out.events
       /\ sources' = out.sources
       /\ last' = [event |-> Some(e), ret |-> out.ret]
       /\ prev' = last
       /\ before' = [events |-> events, sources |-> sources]
       /\ latest' = [latest EXCEPT ![e.event_id] = Some(e)]

\* upsert_event raises: a statement or the commit fails, the connection's
\* context manager rolls the transaction back and the exception is re-raised
UpsertEventRaises(e) ==
    /\ last' = [event |-> Some(e), ret |-> "raise"]
    /\ prev' = last
    /\ before' = [events |-> events, sources |-> sources]
    /\ UNCHANGED <<events, sources, latest>>

\* column LIKE '%"value"%' for one of the values, on the JSON text of a list
LikeAny(column, values) == \E i \in DOMAIN values : values[i] \in Range(JsonLoads(column))

\* ORDER BY event_date DESC: the rows by descending column event_date
RECURSIVE OrderByEventDateDesc(_)
OrderByEventDateDesc(rows) ==
    IF rows = {} THEN <<>>
    ELSE LET r == CHOOSE x \in rows : \A y \in rows : y.event_date <= x.event_date
         IN <<r>> \o OrderByEventDateDesc(rows \ {r})

\* get_events(start_date, end_date, categories, regulators): the WHERE
\* clause reads the columns of the row, the Events come from the payloads;
\* a filter that is None or an empty list adds no condition
GetEvents(tbl, start_date, end_date, categories, regulators) ==
    LET rows == {r \in tbl :
                   /\ start_date # None => r.event_date >= IsoFormat(start_date[1])
                   /\ end_date # None => r.event_date <= IsoFormat(end_date[1])
                   /\ (categories # None /\ categories[1] # <<>>) =>
                         LikeAny(r.categories, categories[1])
                   /\ (regulators # None /\ regulators[1] # <<>>) =>
                         LikeAny(r.regulators, regulators[1])}
        ordered == OrderByEventDateDesc(rows)
    IN [i \in DOMAIN ordered |-> Deserialize(ordered[i].payload)]

\* the sum of f[x] over the x of a finite set
RECURSIVE SumOver(_, _)
SumOver(S, f) ==
    IF S = {} THEN 0
    ELSE LET x == CHOOSE y \in S : TRUE
         IN f[x] + SumOver(S \ {x}, f)

\* SELECT column, COUNT(*) FROM events GROUP BY column, then for every
\* element of the decoded list of a group counts[element] += COUNT(*)
Distribution(tbl, column) ==
    LET groups == {r[column] : r \in tbl}
        Count(g) == Cardinality({r \in tbl : r[column] = g})
        keys == UNION {Range(JsonLoads(g)) : g \in groups}
        Holds(g, key) == Cardinality({i \in DOMAIN JsonLoads(g) : JsonLoads(g)[i] = key})
    IN [key \in keys |-> SumOver(groups, [g \in groups |-> Holds(g, key) * Count(g)])]

\* get_statistics: every figure is read from the columns of table events
GetStatistics(tbl) ==
    [total_events |-> Cardinality(tbl),
     total_penalties_usd |-> SumOver(tbl, [r \in tbl |-> r.penalties_usd]),
     category_distribution |-> Distribution(tbl, "categories"),
     regulator_distribution |-> Distribution(tbl, "regulators")]

---------------------------------------------------------------------------
(* upsert_event statement by statement, on the connections of two callers
   (storage/repository.py 73-151).  sqlite3.connect opens a connection in
   the module's default transaction mode: the SELECT runs outside a
   transaction, the first INSERT or UPDATE begins one and takes the write
   lock of the database file, every later statement of the call belongs to
   it, conn.commit() makes its changes visible at once, and an exception
   leaving the with block rolls it back.  events and sources are the
   committed tables, which every reader sees; evTbl and srcTbl are the
   tables as the connection holding the lock sees them. *)

Writers == {1, 2}
MaxUpserts == 3

NoConn ==
    [pc |-> "idle", event |-> None, existing |-> None, evTbl |-> {},
     srcTbl |-> NoSources, todo |-> 0, result |-> "none"]
NoTxn == [lock |-> 0, conn |-> [w \in Writers |-> NoConn], log |-> <<>>]

\* the call has ended: its result is logged
Ended(w, result) ==
    [txn EXCEPT !.conn[w].pc = "done", !.conn[w].result = result,
                !.lock = IF @ = w THEN 0 ELSE @,
                !.log = Append(@, [writer |-> w, event |-> txn.conn[w].event[1],
                                   result |-> result])]

\* upsert_event(e) is called: the SELECT of the stored payload and the
\* comparison; an unchanged payload returns False at once
CallUpsert(w, e) ==
    /\ txn.conn[w].pc = "idle"
    /\ Len(txn.log) + Cardinality({o \in Writers : txn.conn[o].pc \notin {"idle", "done"}}) < MaxUpserts
    /\ LET existing == Existing(events, e.event_id)
       IN txn' = IF existing # None /\ PayloadUnchanged(existing[1], Serialize(e))
                 THEN [txn EXCEPT !.conn[w] = [NoConn EXCEPT !.pc = "done", !.event = Some(e),
                                                              !.result = "false"],
                                  !.log = Append(@, [writer |-> w, event |-> e, result |-> "false"])]
                 ELSE [txn EXCEPT !.conn[w] = [NoConn EXCEPT !.pc = "selected", !.event = Some(e),
                                                              !.existing = existing]]
    /\ UNCHANGED <<events, sources>>

\* the UPDATE or the INSERT: the transaction begins when the lock is free;
\* the INSERT of an event_id that has a row by now fails on the primary key
WriteEventRow(w) ==
    /\ txn.conn[w].pc = "selected"
    /\ txn.lock = 0
    /\ LET e == txn.conn[w].event[1]
       IN txn' = IF txn.conn[w].existing # None
                 THEN [txn EXCEPT !.lock = w, !.conn[w].pc = "wrote",
                                  !.conn[w].evTbl = UpdateEvent(events, e),
                                  !.conn[w].srcTbl = sources]
                 ELSE IF \E r \in events : r.event_id = e.event_id
                      THEN Ended(w, "IntegrityError")
                 ELSE [txn EXCEPT !.lock = w, !.conn[w].pc = "wrote",
                                  !.conn[w].evTbl = InsertEvent(events, e),
                                  !.conn[w].srcTbl = sources]
    /\ UNCHANGED <<events, sources>>

\* the lock is held by the other connection for longer than the timeout of
\* the connection: OperationalError, database is locked
LockTimeout(w) ==
    /\ txn.conn[w].pc = "selected"
    /\ txn.lock \notin {0, w}
    /\ txn' = Ended(w, "locked")
    /\ UNCHANGED <<events, sources>>

\* _upsert_sources: DELETE FROM sources WHERE event_id = ?
DeleteSourceRows(w) ==
    /\ txn.conn[w].pc = "wrote"
    /\ LET id == txn.conn[w].event[1].event_id
       IN txn' = [txn EXCEPT !.conn[w].pc = "inserting", !.conn[w].todo = 1,
                             !.conn[w].srcTbl = (id :> <<>>) @@ @]
    /\ UNCHANGED <<events, sources>>

\* _upsert_sources: the INSERT of the next source
InsertSourceRow(w) ==
    /\ txn.conn[w].pc = "inserting"
    /\ LET e == txn.conn[w].event[1]
           i == txn.conn[w].todo
       IN /\ i <= Len(e.sources)
          /\ txn' = [txn EXCEPT !.conn[w].todo = i + 1,
                                !.conn[w].srcTbl =
                                   (e.event_id :> Append(@[e.event_id], SourceRow(e.event_id, e.sources[i]))) @@ @]
    /\ UNCHANGED <<events, sources>>

\* conn.commit(), return True
CommitUpsert(w) ==
    /\ txn.conn[w].pc = "inserting"
    /\ txn.conn[w].todo > Len(txn.conn[w].event[1].sources)
    /\ events' = txn.conn[w].evTbl
    /\ sources' = txn.conn[w].srcTbl
    /\ txn' = Ended(w, "true")

\* a raise without the rollback: what the connection wrote stays
StatementRaisesKeepsWrites(w) ==
    /\ txn.conn[w].pc \in {"selected", "wrote", "inserting"}
    /\ txn' = Ended(w, "raised")
    /\ IF txn.lock = w
       THEN events' = txn.conn[w].evTbl /\ sources' = txn.conn[w].srcTbl
       ELSE UNCHANGED <<events, sources>>

\* a statement or the commit raises: the with block rolls back, the except
\* clause logs and re-raises
StatementRaises(w) ==
    /\ txn.conn[w].pc \in {"selected", "wrote", "inserting"}
    /\ txn' = Ended(w, "raised")
    /\ UNCHANGED <<events, sources>>

\* the caller has its answer; the connection is closed
UpsertReturned(w) ==
    /\ txn.conn[w].pc = "done"
    /\ txn' = [txn EXCEPT !.conn[w] = NoConn]
    /\ UNCHANGED <<events, sources>>

\* _init_database on a new file: the tables exist and are empty, and no
\* connection is writing
RepoInit ==
    /\ events = {}
    /\ sources = NoSources
    /\ txn = NoTxn

HistInit ==
    /\ last = [event |-> None, ret |-> "none"]
    /\ prev = [event |-> None, ret |-> "none"]
    /\ before = [events |-> {}, sources |-> NoSources]
    /\ latest = [id \in EventIds |-> None]

---------------------------------------------------------------------------
(* Calendar arithmetic used by run_monthly_backfill *)

IsLeap(y) == y % 4 = 0 /\ (y % 100 # 0 \/ y % 400 = 0)

DaysInMonth(y, m) ==
    IF m = 2 THEN (IF IsLeap(y) THEN 29 ELSE 28)
    ELSE IF m \in {4, 6, 9, 11} THEN 30 ELSE 31

\* date.toordinal(): days since 0001-01-01, that day being 1
DaysBeforeYear(y) == (y - 1) * 365 + (y - 1) \div 4 - (y - 1) \div 100 + (y - 1) \div 400
RECURSIVE DaysBeforeMonth(_, _)
DaysBeforeMonth(y, m) == IF m = 1 THEN 0 ELSE DaysBeforeMonth(y, m - 1) + DaysInMonth(y, m - 1)
ToOrdinal(d) == DaysBeforeYear(d[1]) + DaysBeforeMonth(d[1], d[2]) + d[3]

\* date.fromordinal(n): the date whose ordinal is n
FromOrdinal(n) ==
    LET y == CHOOSE yy \in (n \div 366)..(n \div 365 + 1) :
                 DaysBeforeYear(yy) < n /\ n <= DaysBeforeYear(yy + 1)
        m == CHOOSE mm \in 1..12 :
                 /\ DaysBeforeYear(y) + DaysBeforeMonth(y, mm) < n
                 /\ n <= DaysBeforeYear(y) + DaysBeforeMonth(y, mm) + DaysInMonth(y, mm)
    IN Date(y, m, n - DaysBeforeYear(y) - DaysBeforeMonth(y, m))

\* d - timedelta(days=k)
MinusDays(d, k) == FromOrdinal(ToOrdinal(d) - k)

\* the comparison of two dates
DateLE(a, b) == ToOrdinal(a) <= ToOrdinal(b)

---------------------------------------------------------------------------
(* EventScheduler (ingestion/orchestrators/scheduler.py) *)

\* self.connectors, in the order the dict is built
Registry == <<"fdic_edo", "occ_enforcement", "ffiec_bankfind", "newsapi", "mediastack">>
Connectors == Range(Registry)

\* the connector the loops skip: it only enriches
EnrichmentOnly == {"ffiec_bankfind"}
Collecting == Connectors \ EnrichmentOnly

\* the longest list of events a connector yields in one fetch
MaxFetch == 2

\* Events the connectors' pipelines yield.  Two FDIC events carry the same
\* event_id with different titles: the same order found as a link of a
\* section and as a card of the search results (fdic_edo.py discover_items).
EvF1 == EventRec("fdic-edo-a-2024-02-29", "Consent Order", <<"regulatory_action">>,
                 Date(2024, 2, 29), <<"FDIC">>, 0, None, <<SrcA>>)
EvF1Card == EventRec("fdic-edo-a-2024-02-29", "Consent Order against A Bank", <<"regulatory_action">>,
                 Date(2024, 2, 29), <<"FDIC">>, 0, None, <<SrcA>>)
EvF2 == EventRec("fdic-edo-b-2024-03-01", "Order B", <<"regulatory_action", "fine">>,
                 Date(2024, 3, 1), <<"FDIC">>, 1000000, None, <<SrcB>>)
EvO1 == EventRec("occ-enforcement-c-2023-12-31", "Formal Agreement", <<"regulatory_action">>,
                 Date(2023, 12, 31), <<"OCC">>, 0, None, <<SrcC>>)

\* newsapi and mediastack never yield an Event: their normalize_item builds
\* SourceRef without its required fields, which raises for every article
FeedPool(c) ==
    CASE c = "fdic_edo" -> {EvF1, EvF1Card, EvF2}
      [] c = "occ_enforcement" -> {EvO1}
      [] OTHER -> {}

SchedEventIds == {e.event_id : e \in UNION {FeedPool(c) : c \in Connectors}}

\* What a connector's fetch_updates meets: its source is up and its pipeline
\* yields a list of events, its source is unreachable, or an exception
\* escapes fetch_updates.
Up(feed) == [kind |-> "up", feed |-> feed]
Down == [kind |-> "down", feed |-> <<>>]
Faulty == [kind |-> "raise", feed |-> <<>>]
Conds(c) ==
    {Up(f) : f \in SeqsUpTo(FeedPool(c), MaxFetch)} \cup {Down, Faulty}

\* newsapi and mediastack yield no event whether their source answers or
\* not: for them only a raising fetch is told apart
QuietConds == {Up(<<>>), Faulty}

\* await connector.fetch_updates(since): an unreachable source makes
\* discover_items log and return [], so fetch_updates returns []
FetchUpdates(c) ==
    CASE cond[c].kind = "raise" -> [raised |-> TRUE, events |-> <<>>]
      [] cond[c].kind = "down" -> [raised |-> FALSE, events |-> <<>>]
      [] OTHER -> [raised |-> FALSE, events |-> cond[c].feed]

\* bankfind._enrich_event_institutions_async(event): looks the institutions
\* up, logs, and returns the event as it got it
Enrich(e) == e

\* the except clause of the per-event try: the loop goes on with the rest
RestAbandoned(rest) == <<>>
RestAfterEventError(rest) == rest

\* The per-event loop of one connector: enrich, then upsert.  st holds the
\* tables, stored_count, the error entries and the calls made; bad is the
\* set of event_ids whose upsert_event raises during this operation.
RECURSIVE StoreEvents(_, _, _, _)
StoreEvents(st, c, evs, bad) ==
    IF evs = <<>> THEN st
    ELSE LET e == Enrich(Head(evs))
         IN IF e.event_id \in bad
            THEN StoreEvents(
                   [st EXCEPT !.errors = Append(@, [connector |-> c, event_id |-> Some(e.event_id)]),
                              !.calls = Append(@, [connector |-> c, event |-> e, ret |-> "raise"])],
                   c, RestAfterEventError(Tail(evs)), bad)
            ELSE LET out == UpsertOutcome(st.events, st.sources, e)
                 IN StoreEvents(
                      [st EXCEPT !.events = out.events,
                                 !.sources = out.sources,
                                 !.stored = IF out.ret = "true" THEN @ + 1 ELSE @,
                                 !.calls = Append(@, [connector |-> c, event |-> e, ret |-> out.ret])],
                      c, Tail(evs), bad)

\* start_date and end_date of run_monthly_backfill
MonthStart(year, month) == Date(year, month, 1)
MonthEndDay30(year, month) == Date(year, month, 30)
MonthEnd(year, month) ==
    IF month = 12 THEN MinusDays(Date(year + 1, 1, 1), 1)
    ELSE MinusDays(Date(year, month + 1, 1), 1)

\* start_date <= event.event_date <= end_date
InPeriod(e, start, end) == DateLE(start, e.event_date) /\ DateLE(e.event_date, end)

\* month_events; run_daily_collection stores all it fetched
Daily == [kind |-> "daily"]
Monthly(year, month) ==
    [kind |-> "monthly", start |-> MonthStart(year, month), end |-> MonthEnd(year, month)]
ToStore(op, evs) ==
    IF op.kind = "monthly" THEN SelectSeq(evs, LAMBDA e : InPeriod(e, op.start, op.end))
    ELSE evs

\* results['connectors'][connector_name] of a connector that ran
SuccessEntry(op, fetched, kept, stored) ==
    IF op.kind = "monthly"
    THEN [events_fetched |-> fetched, events_in_period |-> kept,
          events_stored |-> stored, status |-> "success"]
    ELSE [events_fetched |-> fetched, events_stored |-> stored, status |-> "success"]

\* ... and of one whose fetch_updates raised
ErrorEntry(op) ==
    IF op.kind = "monthly"
    THEN [events_fetched |-> 0, events_in_period |-> 0, events_stored |-> 0, status |-> "error"]
    ELSE [events_fetched |-> 0, events_stored |-> 0, status |-> "error"]

\* the end of the connector's try block: its entry, and total_events
ConnectorDone(st, c, entry) ==
    [st EXCEPT !.entries = (c :> entry) @@ @,
               !.total = @ + entry.events_stored]

\* the except clause of the connector's try block
ConnectorFailedNoEntry(st, c, entry) ==
    [st EXCEPT !.errors = Append(@, [connector |-> c, event_id |-> None])]
ConnectorFailed(st, c, entry) ==
    [st EXCEPT !.entries = (c :> entry) @@ @,
               !.errors = Append(@, [connector |-> c, event_id |-> None])]

\* for connector_name, connector in self.connectors.items(), from the i-th
RECURSIVE RunLoop(_, _, _, _)
RunLoop(i, st, bad, op) ==
    IF i > Len(Registry) THEN st
    ELSE LET c == Registry[i]
             got == FetchUpdates(c)
             kept == ToStore(op, got.events)
             after == StoreEvents([st EXCEPT !.stored = 0], c, kept, bad)
         IN IF c \in EnrichmentOnly THEN RunLoop(i + 1, st, bad, op)
            ELSE IF got.raised
            THEN RunLoop(i + 1, ConnectorFailed(st, c, ErrorEntry(op)), bad, op)
            ELSE RunLoop(i + 1,
                         ConnectorDone(after, c,
                             SuccessEntry(op, Len(got.events), Len(kept), after.stored)),
                         bad, op)

\* the state a scheduler operation starts its loop in
Start ==
    [events |-> events, sources |-> sources, stored |-> 0, total |-> 0,
     errors |-> <<>>, calls |-> <<>>, entries |-> <<>>]

NoReport == [kind |-> "none"]

\* FDIC_API_KEY is set: the registry connector is "down" when it is not, and
\* search_institution then returns None without a request
KeySet == cond["ffiec_bankfind"].kind # "down"

\* The clients of the registry after an operation: fetch_updates closes the
\* client of each connector it ran on (its finally clause); the enrichment
\* of an event, which comes after, makes the registry connector open its
\* client when it sends the search, and nothing closes that one.
ClientsAfter(ran, stored) ==
    [c \in Connectors |->
        IF c = "ffiec_bankfind" /\ stored # <<>> /\ KeySet THEN "open"
        ELSE IF c \in ran THEN "none"
        ELSE clients[c]]

\* health_check: the loop over the registry from the i-th connector.  An
\* exception out of discover_items marks the connector unhealthy and the
\* loop goes on.
RestNotChecked(i) == Len(Registry) + 1
NextChecked(i) == i + 1
RECURSIVE HealthLoop(_, _)
HealthLoop(i, results) ==
    IF i > Len(Registry) THEN results
    ELSE LET c == Registry[i]
         IN IF cond[c].kind = "raise"
            THEN HealthLoop(NextChecked(i),
                   [results EXCEPT !.connectors = (c :> [status |-> "unhealthy"]) @@ @,
                                   !.overall_status = "unhealthy"])
            ELSE HealthLoop(i + 1,
                   [results EXCEPT !.connectors =
                       (c :> [status |-> "healthy"]) @@ @])

\* the connectors whose discover_items sends a request: the regulator
\* connectors always, a news connector when its API key is set, the
\* registry connector never (it returns [] at once)
Requesting(keyed) == {"fdic_edo", "occ_enforcement"} \cup keyed

\* health_check(): only discover_items is awaited, on every connector of
\* the registry; no client is closed
HealthCheck ==
    \E keyed \in SUBSET {"newsapi", "mediastack"} :
       /\ report' = HealthLoop(1, [kind |-> "health", connectors |-> <<>>,
                                   overall_status |-> "healthy"])
       /\ calls' = <<>>
       /\ clients' = [c \in Connectors |->
                        IF c \in Requesting(keyed) THEN "open" ELSE clients[c]]
       /\ UNCHANGED <<events, sources, envVars>>

\* run_daily_collection(target_date): target_date only reaches the
\* connectors as since, which their discovery does not use
RunDaily ==
    \E r \in {RunLoop(1, Start, failing, Daily)} :
       /\ events' = r.events
       /\ sources' = r.sources
       /\ report' = [kind |-> "daily", connectors |-> r.entries,
                     total_events |-> r.total, errors |-> r.errors]
       /\ calls' = r.calls
       /\ clients' = ClientsAfter(Collecting, r.calls)
       /\ UNCHANGED envVars

\* run_monthly_backfill(year, month)
RunMonthlyBackfill(year, month) ==
    \E op \in {Monthly(year, month)} : \E r \in {RunLoop(1, Start, failing, op)} :
       /\ events' = r.events
       /\ sources' = r.sources
       /\ report' = [kind |-> "monthly", period |-> <<op.start, op.end>>,
                     connectors |-> r.entries,
                     total_events |-> r.total, errors |-> r.errors]
       /\ calls' = r.calls
       /\ clients' = ClientsAfter(Collecting, r.calls)
       /\ UNCHANGED envVars

\* run_connector(connector_name, since), connector_name in the registry
RunConnector(name) ==
    \E got \in {FetchUpdates(name)} : \E r \in {StoreEvents(Start, name, got.events, failing)} :
       IF got.raised
       THEN /\ report' = [kind |-> "connector", connector |-> name,
                          events_fetched |-> 0, events_stored |-> 0,
                          status |-> "error", errors |-> <<>>]
            /\ calls' = <<>>
            /\ clients' = ClientsAfter({name}, <<>>)
            /\ UNCHANGED <<events, sources, envVars>>
       ELSE /\ events' = r.events
            /\ sources' = r.sources
            /\ report' = [kind |-> "connector", connector |-> name,
                          events_fetched |-> Len(got.events),
                          events_stored |-> r.stored,
                          status |-> "success",
                          errors |-> [k \in DOMAIN r.errors |-> [event_id |-> r.errors[k].event_id]]]
            /\ calls' = r.calls
            /\ clients' = ClientsAfter({name}, r.calls)
            /\ UNCHANGED envVars

\* the storage fault comes or goes between two operations
FaultChanges ==
    /\ \E b \in SUBSET SchedEventIds : b # failing /\ failing' = b
    /\ UNCHANGED <<events, sources, cond, report, calls, clients>>

\* the months the backfill is run for
BackfillMonths == {<<2024, 2>>, <<2023, 12>>}

\* Events dated on and around the boundaries of those months
DatedEvent(id, d) ==
    EventRec(id, "Order", <<"regulatory_action">>, d, <<"FDIC">>, 0, None, <<SrcA>>)
BackfillPool ==
    {DatedEvent("fdic-edo-n-2023-11-30", Date(2023, 11, 30)),
     DatedEvent("fdic-edo-p-2023-12-01", Date(2023, 12, 1)),
     DatedEvent("fdic-edo-q-2023-12-31", Date(2023, 12, 31)),
     DatedEvent("fdic-edo-r-2024-01-01", Date(2024, 1, 1)),
     DatedEvent("fdic-edo-s-2024-01-31", Date(2024, 1, 31)),
     DatedEvent("fdic-edo-t-2024-02-01", Date(2024, 2, 1)),
     DatedEvent("fdic-edo-u-2024-02-29", Date(2024, 2, 29)),
     DatedEvent("fdic-edo-v-2024-03-01", Date(2024, 3, 1))}

\* the scheduler is constructed; no operation has run
\* EventScheduler.__init__: the connectors are built without a client
RegistryIdle == clients = [c \in Connectors |-> "none"]

SchedIdle ==
    /\ cond = [c \in Connectors |-> Up(<<>>)]
    /\ failing = {}
    /\ report = NoReport
    /\ calls = <<>>

RerunIdle ==
    /\ prevReport = NoReport
    /\ beforeRun = [events |-> {}, sources |-> NoSources]

\* the history of the operation before the last one
Remember ==
    /\ prevReport' = report
    /\ beforeRun' = [events |-> events, sources |-> sources]

---------------------------------------------------------------------------
(* Connectors (ingestion/connectors/base.py, fdic_edo.py, occ_enforcement.py) *)

\* The connector classes: the two regulator connectors, and any other
\* subclass of BaseConnector, whose methods may let an exception out.
Concrete == {"fdic_edo", "occ_enforcement"}
ConnectorKinds == Concrete \cup {"subclass"}

\* the longest listing of a source page
MaxItems == 2

\* what a request meets: a page, a 404, or no answer on any attempt
Outcomes == {"ok", "404", "unreachable"}

\* An item as a page lists it, with what its processing will meet: the
\* answer to the request for its detail page, the date that page carries,
\* whether the content of the page breaks the parsing, and whether Event
\* refuses the parsed fields.  release is the (year, month) of the monthly
\* news release that lists it, if one does.
Item(id, title, detail, d, parse, normalize, release) ==
    [id |-> id, title |-> title, detail |-> detail, date |-> d,
     parse |-> parse, normalize |-> normalize, release |-> release]

ItA == Item("a", "Order A", "ok", Some(Date(2024, 1, 15)), "ok", "ok", None)
ItA404 == [ItA EXCEPT !.detail = "404"]
ItADown == [ItA EXCEPT !.detail = "unreachable"]
ItB == Item("b", "Order B", "ok", Some(Date(2024, 2, 1)), "ok", "ok", None)
ItBParse == [ItB EXCEPT !.parse = "raise"]
ItBNorm == [ItB EXCEPT !.normalize = "raise"]
ItemPool == {ItA, ItA404, ItADown, ItB, ItBParse, ItBNorm}

\* the enforcement action a monthly news release links to
ReleaseItems(ym) ==
    <<Item("nr", "Enforcement Action", "ok", Some(Date(ym[1], ym[2], 1)), "ok", "ok", Some(ym))>>

\* for i in range(1, 7), and timedelta(days=30*i)
MonthsProbed == 6
ProbeStepDays == 30

\* check_date of the i-th probe
CheckDate(today, i) == MinusDays(Date(today[1], today[2], 1), ProbeStepDays * i)

\* the except clause of a month's try: continue with the next month
StopProbing(rest) == [items |-> <<>>, probed |-> <<>>]
AfterMissingRelease(rest) == rest

\* the loop over the months of OccEnforcementConnector.discover_items, from
\* the i-th probe: the items found and the requests made
RECURSIVE ProbeMonths(_, _)
ProbeMonths(s, i) ==
    IF i > MonthsProbed THEN [items |-> <<>>, probed |-> <<>>]
    ELSE LET d == CheckDate(s.today, i)
             ym == <<d[1], d[2]>>
             req == [ym |-> ym, outcome |-> s.months[i]]
         IN IF s.months[i] = "ok"
            THEN LET rest == ProbeMonths(s, i + 1)
                 IN [items |-> ReleaseItems(ym) \o rest.items,
                     probed |-> <<req>> \o rest.probed]
            ELSE LET rest == AfterMissingRelease(ProbeMonths(s, i + 1))
                 IN [items |-> rest.items, probed |-> <<req>> \o rest.probed]

\* _discover_from_easearch: [] when the request fails
DiscoverFromEasearch(s) == IF s.search = "ok" THEN s.listed ELSE <<>>

\* discover_items(since): since reaches only _is_recent_order and
\* _is_recent_action, which answer True
DiscoverItems(s) ==
    CASE s.kind = "fdic_edo" ->
           [raised |-> FALSE, probed |-> <<>>,
            items |-> IF s.search = "ok" THEN s.listed ELSE <<>>]
      [] s.kind = "occ_enforcement" ->
           LET m == ProbeMonths(s, 1)
           IN [raised |-> FALSE, probed |-> m.probed,
               items |-> m.items \o DiscoverFromEasearch(s)]
      [] OTHER ->
           IF s.search = "ok"
           THEN [raised |-> FALSE, probed |-> <<>>, items |-> s.listed]
           ELSE [raised |-> TRUE, probed |-> <<>>, items |-> <<>>]

\* fetch_item_detail(item): the regulator connectors log a failed request
\* and return the item as they got it
FetchItemDetail(kind, item) ==
    IF item.detail = "ok"
    THEN [raised |-> FALSE,
          data |-> [item |-> item, fetched |-> TRUE, metadata_date |-> item.date]]
    ELSE [raised |-> kind \notin Concrete,
          data |-> [item |-> item, fetched |-> FALSE, metadata_date |-> None]]

\* parse_item(item_data): the regulator connectors log an exception and
\* return {}
EmptyParsed ==
    [empty |-> TRUE, external_id |-> "", title |-> "", event_date |-> None, valid |-> FALSE]
ParseItem(kind, data) ==
    IF data.fetched /\ data.item.parse = "raise"
    THEN [raised |-> kind \notin Concrete, parsed |-> EmptyParsed]
    ELSE [raised |-> FALSE,
          parsed |-> [empty |-> FALSE, external_id |-> data.item.id,
                      title |-> data.item.title, event_date |-> data.metadata_date,
                      valid |-> kind \in Concrete \/ data.item.normalize = "ok"]]

\* A str as the sequence of its characters
Chars(s) == [i \in 1..Len(s) |-> SubSeq(s, i, i)]

\* the characters the patterns of re name: A-Z, a-z and 0-9
Ascii ==
    [upper |-> <<"A", "B", "C", "D", "E", "F", "G", "H", "I", "J", "K", "L", "M",
                 "N", "O", "P", "Q", "R", "S", "T", "U", "V", "W", "X", "Y", "Z">>,
     lower |-> <<"a", "b", "c", "d", "e", "f", "g", "h", "i", "j", "k", "l", "m",
                 "n", "o", "p", "q", "r", "s", "t", "u", "v", "w", "x", "y", "z">>,
     digits |-> <<"0", "1", "2", "3", "4", "5", "6", "7", "8", "9">>]
Alnum == Range(Ascii.upper) \cup Range(Ascii.lower) \cup Range(Ascii.digits)

\* str.lower(): "E'" stands for a capital letter outside ASCII and "e'" for
\* its small letter
StrLower(s) ==
    [i \in DOMAIN s |->
       IF \E k \in DOMAIN Ascii.upper : Ascii.upper[k] = s[i]
       THEN Ascii.lower[CHOOSE k \in DOMAIN Ascii.upper : Ascii.upper[k] = s[i]]
       ELSE IF s[i] = "E'" THEN "e'" ELSE s[i]]

\* date.isoformat(): YYYY-MM-DD, zero-padded
Isoformat(d) ==
    LET Pad(n, w) == [i \in 1..w |-> Ascii.digits[((n \div 10^(w - i)) % 10) + 1]]
    IN Pad(d[1], 4) \o <<"-">> \o Pad(d[2], 2) \o <<"-">> \o Pad(d[3], 2)

\* re.sub(r'-+', '-', s)
RECURSIVE CollapseHyphens(_)
CollapseHyphens(s) ==
    IF Len(s) < 2 THEN s
    ELSE IF s[1] = "-" /\ s[2] = "-" THEN CollapseHyphens(Tail(s))
    ELSE <<s[1]>> \o CollapseHyphens(Tail(s))

\* s.strip(chars)
RECURSIVE Strip(_, _)
Strip(s, chars) ==
    IF s # <<>> /\ s[1] \in chars THEN Strip(Tail(s), chars)
    ELSE IF s # <<>> /\ s[Len(s)] \in chars THEN Strip(SubSeq(s, 1, Len(s) - 1), chars)
    ELSE s

\* the second substitution left out: runs of hyphens stay
KeepHyphenRuns(source, external_id, d) ==
    LET base == StrLower(source \o <<":">> \o external_id \o <<":">> \o Isoformat(d))
    IN Strip([i \in DOMAIN base |-> IF base[i] \in Alnum THEN base[i] ELSE "-"], {"-"})

\* generate_event_id(external_id, event_date): the kebab-case of
\* source_name:external_id:isoformat
GenerateEventId(source, external_id, d) ==
    LET base == StrLower(source \o <<":">> \o external_id \o <<":">> \o Isoformat(d))
        kebab == [i \in DOMAIN base |-> IF base[i] \in Alnum THEN base[i] ELSE "-"]
    IN Strip(CollapseHyphens(kebab), {"-"})

\* normalize_item(parsed_data): event_date is the parsed one or today's;
\* Event(...) raises on the url '' of an empty parsed_data
NormalizeItem(kind, parsed, today) ==
    LET d == IF parsed.event_date = None THEN today ELSE parsed.event_date[1]
    IN [raised |-> parsed.empty \/ ~parsed.valid,
        event |-> [event_id |-> GenerateEventId(Chars(kind), Chars(parsed.external_id), d),
                   title |-> parsed.title, event_date |-> d]]

\* the body of the per-item try of fetch_updates
Pipeline(kind, item, today) ==
    LET det == FetchItemDetail(kind, item)
        par == ParseItem(kind, det.data)
        nor == NormalizeItem(kind, par.parsed, today)
    IN [raised |-> det.raised \/ par.raised \/ nor.raised, event |-> nor.event]

\* A dict is a function of its keys; d.get(k, default)
DictGet(d, k, default) == IF k \in DOMAIN d THEN d[k] ELSE default

\* The text of a PDF is modelled by whether it is empty and by the patterns
\* of _parse_pdf_text that find a match in it.  NoText is the text '' and
\* stands for the None of a missing key as well: both are falsy.
NoText == [len |-> 0, patterns |-> {}]
PdfPatterns(kind) ==
    IF kind = "fdic_edo" THEN {"institution", "penalty", "docket", "state", "date"}
    ELSE {"institution", "penalty", "action_type", "subject_matter", "date"}

\* the dict a listing yields for an order
DiscoveredItem ==
    [id |-> "a", title |-> "Order A", url |-> "https://www.fdic.gov/a",
     order_number |-> "a", discovered_date |-> "today"]

\* fetch_item_detail(item): the item with html_content, pdf_url, pdf_text and
\* metadata added; pdf_text is '' when the page links no PDF or the PDF is
\* not downloaded; the item alone when the request for the page fails
ItemData(page) ==
    IF page.detail # "ok" THEN DiscoveredItem
    ELSE [html_content |-> "html",
          pdf_url |-> IF page.pdf = "no link" THEN "None" ELSE "https://www.fdic.gov/a.pdf",
          pdf_text |-> IF page.pdf = "ok" THEN page.text ELSE NoText,
          metadata |-> "metadata"] @@ DiscoveredItem

\* parse_item(item_data): a dict of the keys listed, updated with what
\* _parse_pdf_text and _parse_html_content find
ParsedData(kind, item_data) ==
    LET parsed == [external_id |-> "a",
                   title |-> DictGet(item_data, "title", ""),
                   url |-> DictGet(item_data, "url", ""),
                   pdf_url |-> DictGet(item_data, "pdf_url", "None"),
                   institution |-> "", event_date |-> "None",
                   penalty_amount |-> "0", penalty_text |-> "", summary |-> ""]
                  @@ (IF kind = "fdic_edo"
                      THEN [order_type |-> "", docket_number |-> "", state |-> ""]
                      ELSE [action_type |-> "", subject_matter |-> ""])
        pdf_text == DictGet(item_data, "pdf_text", NoText)
        Keys(pattern) ==
            CASE pattern = "penalty" -> {"penalty_amount", "penalty_text"}
              [] pattern = "docket" -> {"docket_number"}
              [] pattern = "date" -> {"event_date"}
              [] OTHER -> {pattern}
        pdf_parsed == [k \in UNION {Keys(q) : q \in pdf_text.patterns} |-> "from pdf"]
        after_pdf == IF pdf_text.len > 0 THEN pdf_parsed @@ parsed ELSE parsed
        after_html == IF DictGet(item_data, "html_content", "") # "" /\ after_pdf["institution"] = ""
                      THEN [institution |-> "from html"] @@ after_pdf
                      ELSE after_pdf
    IN [summary |-> "summary"] @@ after_html

\* normalize_item: confidence='high' if parsed_data.get('pdf_text') else 'medium'
Confidence(parsed_data) ==
    IF DictGet(parsed_data, "pdf_text", NoText).len > 0 THEN "high" ELSE "medium"

\* The methods the per-item try of fetch_updates calls for one item, in the
\* order of the calls: a method that raises is the last one called
PipelineRediscovers(kind, item, today) ==
    <<"discover_items", "fetch_item_detail", "parse_item", "normalize_item">>
PipelineCalls(kind, item, today) ==
    LET det == FetchItemDetail(kind, item)
        par == ParseItem(kind, det.data)
    IN IF det.raised THEN <<"fetch_item_detail">>
       ELSE IF par.raised THEN <<"fetch_item_detail", "parse_item">>
       ELSE <<"fetch_item_detail", "parse_item", "normalize_item">>

\* the calls, each with the index of the item it is made for (0 for the
\* discovery)
Stamp(called, i) == [k \in DOMAIN called |-> [call |-> called[k], item |-> i]]

\* no call of fetch_updates or discover_items has been made; log lists the
\* methods one call of fetch_updates has called so far
Idle ==
    [pc |-> "idle", items |-> <<>>, probed |-> <<>>, idx |-> 0,
     events |-> <<>>, origin |-> <<>>, failed |-> <<>>, result |-> "none",
     log |-> <<>>]

\* the except clause of the per-item try: log, continue
ItemFailedAborts(f) == [f EXCEPT !.pc = "done", !.result = "raised"]
ItemFailed(f) == [f EXCEPT !.failed = Append(@, f.idx), !.idx = @ + 1]

\* the calls of fetch_updates made on one connector
MaxRuns == 2

\* the property client: a new httpx.AsyncClient when _client is None, else
\* the one held; made counts the constructions
ClientProperty(c, n) ==
    IF c = "none" THEN [client |-> "open", made |-> n + 1]
    ELSE [client |-> c, made |-> n]

\* close(): aclose() the client held and set _client to None
CloseKeepsClient(c) == c
Close(c) == "none"

\* fetch_updates(since) up to its loop: discover_items, which makes its
\* requests through the property client; when it raises, the exception
\* leaves fetch_updates through finally, which closes the client
CallDiscover ==
    /\ fu.pc = "idle"
    /\ runs < MaxRuns
    /\ runs' = runs + 1
    /\ \E d \in {DiscoverItems(site)}, a \in {ClientProperty(client, made)} :
          /\ made' = a.made
          /\ IF d.raised
             THEN /\ fu' = [Idle EXCEPT !.pc = "done", !.result = "raised",
                                        !.log = Stamp(<<"discover_items">>, 0)]
                  /\ client' = Close(a.client)
             ELSE /\ fu' = [Idle EXCEPT !.pc = "items", !.items = d.items,
                                        !.probed = d.probed, !.idx = 1,
                                        !.log = Stamp(<<"discover_items">>, 0)]
                  /\ client' = a.client
    /\ UNCHANGED site

\* one turn of for item in items
ProcessItem ==
    /\ fu.pc = "items"
    /\ fu.idx <= Len(fu.items)
    /\ \E r \in {Pipeline(site.kind, fu.items[fu.idx], site.today)},
          called \in {Stamp(PipelineCalls(site.kind, fu.items[fu.idx], site.today), fu.idx)} :
          IF r.raised
          THEN fu' = [ItemFailed(fu) EXCEPT !.log = @ \o called]
          ELSE fu' = [fu EXCEPT !.events = Append(@, r.event),
                                !.origin = Append(@, fu.idx),
                                !.idx = @ + 1,
                                !.log = @ \o called]
    /\ \E a \in {ClientProperty(client, made)} : client' = a.client /\ made' = a.made
    /\ UNCHANGED <<site, runs>>

\* return events, through finally: await self.close()
Return ==
    /\ fu.pc = "items"
    /\ fu.idx > Len(fu.items)
    /\ fu' = [fu EXCEPT !.pc = "done", !.result = "returned"]
    /\ client' = Close(client)
    /\ UNCHANGED <<site, made, runs>>

\* fetch_updates is called again on the same connector
FetchAgain ==
    /\ fu.pc = "done"
    /\ runs < MaxRuns
    /\ fu' = Idle
    /\ UNCHANGED <<site, client, made, runs>>

\* discover_items(since) called on its own, as health_check calls it
DiscoverOnly ==
    /\ fu.pc = "idle"
    /\ \E d \in {DiscoverItems(site)} :
          fu' = [Idle EXCEPT !.pc = "discovered", !.items = d.items, !.probed = d.probed,
                             !.result = IF d.raised THEN "raised" ELSE "returned",
                             !.log = Stamp(<<"discover_items">>, 0)]
    /\ \E a \in {ClientProperty(client, made)} : client' = a.client /\ made' = a.made
    /\ UNCHANGED <<site, runs>>

\* the day the connectors run
Today == Date(2024, 3, 15)
NoMonths == <<>>
NoSite == [kind |-> "subclass", today |-> Today, search |-> "ok",
           months |-> NoMonths, listed |-> <<>>]

\* the connectors are constructed; no call has been made
FetchIdle ==
    /\ site = NoSite
    /\ fu = Idle
    /\ client = "none"
    /\ made = 0
    /\ runs = 0

\* no function of the normalizers has been applied
NoInput == [fn |-> "none"]
PureIdle ==
    /\ given = NoInput
    /\ gave = <<>>

---------------------------------------------------------------------------
(* Normalizers (ingestion/normalizers/mappings.py) *)

\* A Python value with its type; a dict is a function of its keys.  Absent
\* marks a key the dict being built does not get.
PyVal(type, v) == [type |-> type, v |-> v]
Absent == [type |-> "absent"]

\* pattern in text, for two str given as character sequences
Contains(text, pattern) ==
    \E i \in 0..(Len(text) - Len(pattern)) : SubSeq(text, i + 1, i + Len(pattern)) = pattern

\* MATERIALITY_RULES, fields split at the dots
MaterialityRules ==
    LET penalties == <<"amounts", "penalties_usd">>
        customers == <<"reputational_damage", "drivers", "customers_affected">>
        Cond(f, op, v) == [field |-> f, operator |-> op, value |-> v]
    IN << [score |-> 5,
           conditions |->
             << Cond(penalties, ">=", 1000000000),
                Cond(customers, ">=", 5000000),
                Cond(<<"categories">>, "contains", "financial_performance"),
                Cond(<<"title">>, "contains_any",
                     <<"congressional hearing", "ceo resignation scandal">>) >>],
          [score |-> 4,
           conditions |->
             << Cond(penalties, ">=", 100000000),
                Cond(customers, ">=", 1000000),
                Cond(<<"title">>, "contains_any",
                     <<"mass layoff", "esg controversy", "sustained negative press">>) >>],
          [score |-> 3,
           conditions |->
             << Cond(penalties, ">=", 10000000),
                Cond(customers, ">=", 100000),
                Cond(<<"title">>, "contains_any",
                     <<"significant outage", "workforce reduction", "multiple state ag">>) >>],
          [score |-> 2,
           conditions |->
             << Cond(penalties, ">=", 1000000),
                Cond(customers, ">=", 10000),
                Cond(<<"title">>, "contains_any",
                     <<"executive misconduct", "branch closure",
                       "fintech partnership failure">>) >>],
          [score |-> 1,
           conditions |->
             << Cond(<<"title">>, "contains_any",
                     <<"investigation", "discrimination allegation",
                       "customer service failure">>) >>] >>

\* Navigate nested fields: .get(key, "") while the value is a dict, else ""
RECURSIVE Navigate(_, _)
Navigate(val, path) ==
    IF path = <<>> THEN val
    ELSE IF val.type = "dict"
         THEN Navigate(IF Head(path) \in DOMAIN val.v THEN val.v[Head(path)]
                       ELSE PyVal("str", ""),
                       Tail(path))
         ELSE PyVal("str", "")

\* field_value >= value
GreaterThan(a, b) == a > b
AtLeast(a, b) == a >= b

\* Apply operator: whether the condition makes the rule return its score
SatisfiedByNumbersOnly(condition, e) ==
    LET fv == Navigate(e, condition.field)
    IN condition.operator = ">=" /\ fv.type \in {"int", "float"} /\ AtLeast(fv.v, condition.value)
Satisfied(condition, e) ==
    LET fv == Navigate(e, condition.field)
    IN CASE condition.operator = ">=" ->
              fv.type \in {"int", "float"} /\ AtLeast(fv.v, condition.value)
         [] condition.operator = "contains" ->
              \/ fv.type = "str" /\ Contains(StrLower(Chars(fv.v)), Chars(condition.value))
              \/ fv.type = "list" /\ \E i \in DOMAIN fv.v : fv.v[i] = condition.value
         [] condition.operator = "contains_any" ->
              \E k \in DOMAIN condition.value :
                 fv.type = "str" /\ Contains(StrLower(Chars(fv.v)), Chars(condition.value[k]))

\* for condition in conditions: the first satisfied one returns
MatchesAll(rule, e) == \A c \in DOMAIN rule.conditions : Satisfied(rule.conditions[c], e)
Matches(rule, e) == \E c \in DOMAIN rule.conditions : Satisfied(rule.conditions[c], e)

\* calculate_materiality_score(event_data), from the r-th rule on: the score
\* returned, and the scores of the rules whose conditions were evaluated
RECURSIVE CalculateMaterialityScore(_, _)
CalculateMaterialityScore(e, r) ==
    IF r > Len(MaterialityRules) THEN [score |-> 1, consulted |-> <<>>]
    ELSE IF Matches(MaterialityRules[r], e)
         THEN [score |-> MaterialityRules[r].score,
               consulted |-> <<MaterialityRules[r].score>>]
         ELSE LET rest == CalculateMaterialityScore(e, r + 1)
              IN [rest EXCEPT !.consulted = <<MaterialityRules[r].score>> \o @]

\* an event_data dict from what it holds for penalties_usd, for
\* customers_affected, for categories and for title
EventData(pen, cust, cats, title) ==
    PyVal("dict",
          (IF pen = Absent THEN <<>>
           ELSE "amounts" :> PyVal("dict", "penalties_usd" :> pen))
          @@ (IF cust = Absent THEN <<>>
              ELSE "reputational_damage"
                     :> PyVal("dict", "drivers" :> PyVal("dict", "customers_affected" :> cust)))
          @@ (IF cats = Absent THEN <<>> ELSE "categories" :> cats)
          @@ (IF title = Absent THEN <<>> ELSE "title" :> title))

\* CATEGORY_MAPPINGS, in the order of the dict
CategoryMappings ==
    << <<"consent order", "regulatory_action">>,
      <<"cease and desist", "regulatory_action">>,
      <<"cease-and-desist", "regulatory_action">>,
      <<"order to cease and desist", "regulatory_action">>,
      <<"formal agreement", "regulatory_action">>,
      <<"written agreement", "regulatory_action">>,
      <<"memorandum of understanding", "regulatory_action">>,
      <<"enforcement action", "regulatory_action">>,
      <<"regulatory order", "regulatory_action">>,
      <<"civil money penalty", "fine">>,
      <<"civil monetary penalty", "fine">>, <<"monetary penalty", "fine">>,
      <<"financial penalty", "fine">>, <<"administrative penalty", "fine">>,
      <<"regulatory fine", "fine">>, <<"data breach", "data_breach">>,
      <<"data breach notice", "data_breach">>,
      <<"security breach", "data_breach">>,
      <<"cybersecurity incident", "data_breach">>,
      <<"privacy breach", "data_breach">>,
      <<"information security incident", "data_breach">>,
      <<"bank failure", "financial_performance">>,
      <<"bank closure", "financial_performance">>,
      <<"receivership", "financial_performance">>,
      <<"liquidation", "financial_performance">>,
      <<"bankruptcy", "financial_performance">>, <<"lawsuit", "lawsuit">>,
      <<"complaint", "lawsuit">>, <<"litigation", "lawsuit">>,
      <<"class action", "lawsuit">>, <<"legal action", "lawsuit">>,
      <<"court filing", "lawsuit">>, <<"fraud", "fraud">>,
      <<"fraudulent activity", "fraud">>, <<"financial fraud", "fraud">>,
      <<"banking fraud", "fraud">>, <<"outage", "operational_outage">>,
      <<"service disruption", "operational_outage">>,
      <<"system failure", "operational_outage">>,
      <<"technology failure", "technology_failure">>,
      <<"cyber attack", "technology_failure">>,
      <<"bsa violation", "sanctions_aml">>,
      <<"aml violation", "sanctions_aml">>,
      <<"anti-money laundering", "sanctions_aml">>,
      <<"sanctions violation", "sanctions_aml">>,
      <<"compliance failure", "compliance_failure">>,
      <<"discrimination", "discrimination">>,
      <<"fair lending violation", "discrimination">>,
      <<"redlining", "discrimination">>,
      <<"predatory lending", "predatory_practices">>,
      <<"executive misconduct", "executive_misconduct">>,
      <<"executive resignation", "executive_misconduct">>,
      <<"ceo scandal", "executive_misconduct">>,
      <<"management misconduct", "executive_misconduct">>,
      <<"environmental controversy", "esg_controversy">>,
      <<"greenwashing", "esg_controversy">>,
      <<"labor dispute", "labor_dispute">>, <<"strike", "labor_dispute">>,
      <<"mass layoff", "labor_dispute">>,
      <<"customer service failure", "customer_service_crisis">>,
      <<"service crisis", "customer_service_crisis">>,
      <<"customer complaint", "customer_service_crisis">>,
      <<"governance issue", "governance_issue">>,
      <<"board controversy", "governance_issue">>,
      <<"shareholder activism", "governance_issue">>,
      <<"proxy battle", "governance_issue">>,
      <<"market manipulation", "market_manipulation">>,
      <<"insider trading", "market_manipulation">>,
      <<"securities fraud", "market_manipulation">>,
      <<"investigation", "investigation">>, <<"probe", "investigation">>,
      <<"inquiry", "investigation">>, <<"examination", "investigation">>,
      <<"marketing controversy", "brand_marketing">>,
      <<"brand crisis", "brand_marketing">>,
      <<"pr crisis", "brand_marketing">>,
      <<"public relations crisis", "brand_marketing">>,
      <<"partnership failure", "partnership_failure">>,
      <<"vendor scandal", "partnership_failure">>,
      <<"fintech partnership failure", "partnership_failure">> >>

\* REGULATOR_MAPPINGS, in the order of the dict
RegulatorMappings ==
    << <<"occ", "OCC">>,
      <<"office of the comptroller of the currency", "OCC">>,
      <<"fdic", "FDIC">>,
      <<"federal deposit insurance corporation", "FDIC">>, <<"frb", "FRB">>,
      <<"federal reserve board", "FRB">>, <<"federal reserve", "FRB">>,
      <<"sec", "SEC">>, <<"securities and exchange commission", "SEC">>,
      <<"cfpb", "CFPB">>, <<"consumer financial protection bureau", "CFPB">>,
      <<"doj", "DOJ">>, <<"department of justice", "DOJ">>,
      <<"nydfs", "NYDFS">>,
      <<"new york department of financial services", "NYDFS">>,
      <<"ncua", "NCUA">>, <<"national credit union administration", "NCUA">>,
      <<"state ag", "State AG">>, <<"state attorney general", "State AG">>,
      <<"attorney general", "State AG">> >>

\* NATURE_MAPPINGS, in the order of the dict
NatureMappings ==
    << <<"compliance failure", "compliance_failure">>,
       <<"regulatory violation", "compliance_failure">>,
       <<"bsa/aml failure", "compliance_failure">>,
       <<"sanctions violation", "compliance_failure">>,
       <<"customer trust", "customer_trust">>,
       <<"customer confidence", "customer_trust">>,
       <<"trust breach", "customer_trust">>,
       <<"customer harm", "customer_trust">>,
       <<"governance", "governance">>, <<"board oversight", "governance">>,
       <<"management oversight", "governance">>,
       <<"corporate governance", "governance">>,
       <<"operational resilience", "operational_resilience">>,
       <<"system reliability", "operational_resilience">>,
       <<"service availability", "operational_resilience">>,
       <<"business continuity", "operational_resilience">>,
       <<"data security", "data_security">>,
       <<"information security", "data_security">>,
       <<"cybersecurity", "data_security">>,
       <<"privacy protection", "data_security">>,
       <<"fairness discrimination", "fairness_discrimination">>,
       <<"discriminatory practices", "fairness_discrimination">>,
       <<"fair lending", "fairness_discrimination">>,
       <<"equal access", "fairness_discrimination">>,
       <<"market integrity", "market_integrity">>,
       <<"financial market integrity", "market_integrity">>,
       <<"trading integrity", "market_integrity">>,
       <<"market manipulation", "market_integrity">>,
       <<"executive conduct", "executive_conduct">>,
       <<"leadership conduct", "executive_conduct">>,
       <<"management behavior", "executive_conduct">>,
       <<"executive ethics", "executive_conduct">>,
       <<"environmental social", "environmental_social">>,
       <<"esg impact", "environmental_social">>,
       <<"social responsibility", "environmental_social">>,
       <<"environmental impact", "environmental_social">>,
       <<"labor relations", "labor_relations">>,
       <<"employee relations", "labor_relations">>,
       <<"workforce management", "labor_relations">>,
       <<"employment practices", "labor_relations">>,
       <<"product controversy", "product_controversy">>,
       <<"product practices", "product_controversy">>,
       <<"lending practices", "product_controversy">>,
       <<"fee practices", "product_controversy">>,
       <<"partner reputation", "partner_reputation">>,
       <<"vendor reputation", "partner_reputation">>,
       <<"third-party risk", "partner_reputation">>,
       <<"business partner", "partner_reputation">> >>

\* VALID_CATEGORIES, VALID_NATURE_TYPES and VALID_REGULATORS
Valid ==
    [categories |->
       {"regulatory_action", "lawsuit", "fine", "data_breach", "fraud",
        "operational_outage", "discrimination", "sanctions_aml", "executive_misconduct",
        "esg_controversy", "labor_dispute", "customer_service_crisis",
        "technology_failure", "partnership_failure", "governance_issue",
        "market_manipulation", "predatory_practices", "investigation",
        "financial_performance", "brand_marketing", "other"},
     nature |->
       {"compliance_failure", "customer_trust", "governance", "operational_resilience",
        "data_security", "fairness_discrimination", "market_integrity",
        "executive_conduct", "environmental_social", "labor_relations",
        "product_controversy", "partner_reputation", "other"},
     regulators |->
       {"OCC", "FDIC", "FRB", "SEC", "CFPB", "DOJ", "State AG", "NYDFS", "NCUA", "Other"}]

\* for pattern, term in mappings.items(): if pattern in source_lower:
\* return term; after the loop, return the default
FirstMatch(mappings, source_text, default) ==
    LET source_lower == StrLower(Chars(source_text))
        found == {i \in DOMAIN mappings : Contains(source_lower, Chars(mappings[i][1]))}
    IN IF found = {} THEN default
       ELSE mappings[CHOOSE i \in found : \A j \in found : i <= j][2]

\* map_category(source_text), map_regulator(source_text)
MapCategory(source_text) == FirstMatch(CategoryMappings, source_text, "other")
MapRegulator(source_text) == FirstMatch(RegulatorMappings, source_text, "Other")

\* map_nature(source_text): the term of every pattern that occurs, in dict
\* order, or ["other"]
MapNature(source_text) ==
    LET source_lower == StrLower(Chars(source_text))
        hit == SelectSeq(NatureMappings, LAMBDA m : Contains(source_lower, Chars(m[1])))
    IN IF hit = <<>> THEN <<"other">> ELSE [i \in DOMAIN hit |-> hit[i][2]]

\* the categories and the nature OccEnforcementConnector.normalize_item
\* gives an Event, from the parsed action_type, penalty_amount and
\* subject_matter
OccTags(parsed) ==
    LET AnyIn(terms, text) ==
            \E t \in terms : Contains(StrLower(Chars(text)), Chars(t))
        categories ==
            (IF AnyIn({"consent", "cease", "desist"}, parsed.action_type)
             THEN <<"regulatory_action">> ELSE <<>>)
            \o (IF parsed.penalty_amount > 0 THEN <<"fine">> ELSE <<>>)
        nature ==
            (IF AnyIn({"bsa", "aml", "anti-money laundering"}, parsed.subject_matter)
             THEN <<"sanctions_aml">> ELSE <<>>)
            \o (IF AnyIn({"fair lending", "equal credit"}, parsed.subject_matter)
                THEN <<"fairness_discrimination">> ELSE <<>>)
    IN [categories |-> IF categories = <<>> THEN <<"regulatory_action">> ELSE categories,
        nature |-> IF nature = <<>> THEN MapNature(parsed.action_type) ELSE nature]

\* A regular expression of re as a tree: a literal, a character class, a
\* concatenation, an alternation, or a greedy ?, * or + of a tree
Re(op, arg) == [op |-> op, arg |-> arg]

\* The backtracking match of the trees rs, one after the other, in the text
\* t from offset i: the offsets where the match can end, in the order the
\* engine tries them, so that the first is the one it reports.
RECURSIVE Match(_, _, _)
Match(rs, t, i) ==
    IF rs = <<>> THEN <<i>>
    ELSE LET r == Head(rs)
             k == Tail(rs)
         IN CASE r.op = "lit" ->
                   IF i + Len(r.arg) <= Len(t) /\ SubSeq(t, i + 1, i + Len(r.arg)) = r.arg
                   THEN Match(k, t, i + Len(r.arg)) ELSE <<>>
              [] r.op = "class" ->
                   IF i < Len(t) /\ t[i + 1] \in r.arg THEN Match(k, t, i + 1) ELSE <<>>
              [] r.op = "cat" -> Match(r.arg \o k, t, i)
              [] r.op = "alt" ->
                   IF r.arg = <<>> THEN <<>>
                   ELSE Match(<<Head(r.arg)>> \o k, t, i)
                        \o Match(<<Re("alt", Tail(r.arg))>> \o k, t, i)
              [] r.op = "opt" -> Match(<<r.arg>> \o k, t, i) \o Match(k, t, i)
              [] r.op = "star" -> Match(<<r.arg, r>> \o k, t, i) \o Match(k, t, i)
              [] r.op = "plus" -> Match(<<r.arg, Re("star", r.arg)>> \o k, t, i)

\* re.findall(pattern, text, re.IGNORECASE) from offset i, for a pattern
\* without groups and written in small letters: the matches from left to
\* right, none overlapping, each as the text has it
RECURSIVE Findall(_, _, _)
Findall(pattern, text, i) ==
    IF i >= Len(text) THEN <<>>
    ELSE LET ends == Match(<<pattern>>, StrLower(text), i)
         IN IF ends = <<>> THEN Findall(pattern, text, i + 1)
            ELSE <<SubSeq(text, i + 1, ends[1])>>
                 \o Findall(pattern, text, IF ends[1] > i THEN ends[1] ELSE i + 1)

\* MONEY_PATTERNS
MoneyPatterns ==
    LET Words(ws) == Re("alt", [j \in DOMAIN ws |-> Re("lit", Chars(ws[j]))])
        digit == Re("class", Range(Ascii.digits))
        spaces == Re("star", Re("class", {" ", "\t", "\n"}))
        number == Re("cat", <<Re("plus", Re("class", Range(Ascii.digits) \cup {","})),
                             Re("opt", Re("cat", <<Re("lit", <<".">>), digit, digit>>))>>)
        unit == Words(<<"million", "billion", "thousand", "k", "m", "b">>)
    IN << Re("cat", <<Re("lit", <<"$">>), number, Re("opt", Re("cat", <<spaces, unit>>))>>),
          Re("cat", <<number, spaces, unit, spaces,
                      Re("opt", Re("alt", <<Re("cat", <<Re("lit", Chars("dollar")),
                                                        Re("opt", Re("lit", <<"s">>))>>),
                                            Re("lit", Chars("usd"))>>))>>),
          Re("cat", <<Words(<<"penalty", "fine", "settlement", "payment">>), spaces,
                      Re("opt", Re("cat", <<Re("lit", Chars("of")), spaces>>)),
                      Re("opt", Re("lit", <<"$">>)), number>>) >>

\* the value of a run of digits
RECURSIVE ToInt(_)
ToInt(ds) ==
    IF ds = <<>> THEN 0
    ELSE 10 * ToInt(SubSeq(ds, 1, Len(ds) - 1))
         + (CHOOSE n \in 0..9 : Ascii.digits[n + 1] = ds[Len(ds)])

\* the multiplier: any(word in clean_text for word in [...]), billion
\* first, then million, then thousand
Multiplier(clean) ==
    IF Contains(clean, Chars("billion")) \/ Contains(clean, <<"b">>) THEN 1000000000
    ELSE IF Contains(clean, Chars("million")) \/ Contains(clean, <<"m">>) THEN 1000000
    ELSE IF Contains(clean, Chars("thousand")) \/ Contains(clean, <<"k">>) THEN 1000
    ELSE 1

\* normalize_money_to_usd(amount_text): int(number * multiplier), the number
\* being whole + hundredths / 100
NormalizeMoneyToUsd(amount_text) ==
    LET clean == SelectSeq(StrLower(amount_text), LAMBDA c : c \notin {"$", ","})
        digits == Re("plus", Re("class", Range(Ascii.digits)))
        from == CHOOSE i \in 0..Len(clean) :
                   /\ i < Len(clean) => Match(<<digits>>, clean, i) # <<>>
                   /\ \A j \in 0..(i - 1) : Match(<<digits>>, clean, j) = <<>>
    IN IF from = Len(clean) THEN 0
       ELSE LET to == Match(<<digits>>, clean, from)[1]
                cents == IF /\ to + 3 <= Len(clean) /\ clean[to + 1] = "."
                            /\ clean[to + 2] \in Range(Ascii.digits)
                            /\ clean[to + 3] \in Range(Ascii.digits)
                         THEN ToInt(SubSeq(clean, to + 2, to + 3)) ELSE 0
                mult == Multiplier(clean)
            IN ToInt(SubSeq(clean, from + 1, to)) * mult
               + (IF mult = 1 THEN 0 ELSE cents * (mult \div 100))

\* the matches of the patterns from the p-th on, pattern after pattern
RECURSIVE MoneyMatches(_, _)
MoneyMatches(text, p) ==
    IF p > Len(MoneyPatterns) THEN <<>>
    ELSE Findall(MoneyPatterns[p], text, 0) \o MoneyMatches(text, p + 1)

\* extract_money_amounts(text): the sum of the amounts of the matches, and
\* the matches, each followed by "; ", stripped of "; " at both ends
ExtractMoneyAmounts(text) ==
    LET RECURSIVE Fold(_)
        Fold(ms) ==
            IF ms = <<>> THEN [total |-> 0, original |-> <<>>]
            ELSE LET rest == Fold(Tail(ms))
                 IN [total |-> NormalizeMoneyToUsd(Head(ms)) + rest.total,
                     original |-> Head(ms) \o <<";", " ">> \o rest.original]
        all == Fold(MoneyMatches(text, 1))
    IN [total |-> all.total, original |-> Strip(all.original, {";", " "})]

---------------------------------------------------------------------------
(* The HTTP layer of the connectors (ingestion/connectors/base.py 55-88) *)

\* stop_after_attempt(3); wait_exponential(multiplier=1, min=4, max=10)
StopAfterAttempt == 3
WaitMin == 4
WaitMax == 10

\* the seconds tenacity sleeps after the attempt of that number:
\* multiplier * 2^(attempt - 1), held between min and max
WaitExponential(attempt) ==
    LET exp == 2^(attempt - 1)
        capped == IF exp < WaitMax THEN exp ELSE WaitMax
    IN IF capped > WaitMin THEN capped ELSE WaitMin

\* What one attempt meets: a response with its status and, on a 429, maybe
\* a Retry-After header; or an exception of the transport (status 0).
\* raise_for_status raises on every status outside 2xx, and each except
\* clause logs and raises again.
Raises(answer) == answer.status \notin 200..299

\* A call of _make_request (path "retry", under @retry) or of
\* _make_request_no_retry_404 (path "plain", which has no decorator), from
\* the attempt of that number at that second: the attempts made with the
\* second each started at, and how the call ended.  @retry retries on every
\* exception and raises RetryError after the last attempt.
RECURSIVE MakeRequest(_, _, _, _)
MakeRequest(path, answers, attempt, now) ==
    LET this == [at |-> now, answer |-> answers[attempt]]
    IN IF ~Raises(answers[attempt])
       THEN [attempts |-> <<this>>, result |-> "response"]
       ELSE IF path = "plain" THEN [attempts |-> <<this>>, result |-> "raised"]
       ELSE IF attempt >= StopAfterAttempt
            THEN [attempts |-> <<this>>, result |-> "RetryError"]
       ELSE LET rest == MakeRequest(path, answers, attempt + 1,
                                    now + WaitExponential(attempt))
            IN [rest EXCEPT !.attempts = <<this>> \o @]

---------------------------------------------------------------------------
(* The collector of monthly events (collect_event_data.py 329-361; the loop
   of step_2_claude.py 233-265 is the same).  Times are in milliseconds. *)

\* backoff ** attempt with backoff = 1.5, exact in milliseconds up to the
\* third attempt
BackoffPower(attempt) == (3^attempt * 1000) \div 2^attempt

\* float(text) of a header: whole seconds with an optional sign parse,
\* every other text here (an HTTP-date) is a ValueError
PyFloat(text) ==
    LET cs == Chars(text)
        neg == cs # <<>> /\ Head(cs) = "-"
        ds == IF neg THEN Tail(cs) ELSE cs
    IN IF ds # <<>> /\ \A i \in DOMAIN ds : ds[i] \in Range(Ascii.digits)
       THEN [ok |-> TRUE, ms |-> (IF neg THEN -1 ELSE 1) * ToInt(ds) * 1000]
       ELSE [ok |-> FALSE, ms |-> 0]

\* The retry loop from the attempt after `attempt`: the requests posted with
\* the millisecond each was posted at, and how the loop ends: "ok" (a 200,
\* the envelope is parsed next), "APIError", or the "ValueError" of float()
\* or of time.sleep() on a negative length.
RECURSIVE RequestLoop(_, _, _, _)
RequestLoop(answers, max_retries, attempt0, now) ==
    LET attempt == attempt0 + 1
        resp == answers[attempt]
        this == [at |-> now, answer |-> resp]
        Stop(result) == [requests |-> <<this>>, result |-> result]
        Again(ms) ==
            LET rest == RequestLoop(answers, max_retries, attempt, now + ms)
            IN [rest EXCEPT !.requests = <<this>> \o @]
    IN CASE resp.raised = "Timeout" ->
              IF attempt < max_retries THEN Again(BackoffPower(attempt))
              ELSE Stop("APIError")
         [] resp.raised = "RequestException" -> Stop("APIError")
         [] OTHER ->
              IF resp.status = 429 /\ attempt < max_retries
              THEN LET retry_after ==
                          IF resp.retry_after = None
                          THEN [ok |-> TRUE, ms |-> BackoffPower(attempt)]
                          ELSE PyFloat(resp.retry_after[1])
                   IN IF retry_after.ok /\ retry_after.ms >= 0
                      THEN Again(retry_after.ms)
                      ELSE Stop("ValueError")
              ELSE IF resp.status >= 500 /\ attempt < max_retries
                   THEN Again(BackoffPower(attempt))
              ELSE IF resp.status # 200 THEN Stop("APIError")
              ELSE Stop("ok")

---------------------------------------------------------------------------
(* The content of the collaborator's message (collect_event_data.py 186-193,
   378-392; step_2_get_event_details.py 63-105, 259-268).  A content is a
   sequence of tokens: "{" and "}", "k" for a key with its colon, "1" for a
   number, "p" for a letter of prose, "f" for a ``` fence. *)

\* json.loads succeeds: the text is a number (digits) or an object of at
\* most one member, whose value is a number or such an object
RECURSIVE Loads(_)
Loads(text) ==
    \/ (text # <<>> /\ \A i \in DOMAIN text : text[i] = "1")
    \/ /\ Len(text) >= 2
       /\ Head(text) = "{" /\ text[Len(text)] = "}"
       /\ LET inner == SubSeq(text, 2, Len(text) - 1)
          IN inner = <<>> \/ (Head(inner) = "k" /\ Loads(Tail(inner)))

\* re.search(r"\{.*\}", text, re.DOTALL): from the first "{" to the last "}"
ExtractJsonBlock(text) ==
    LET opens == {i \in DOMAIN text : text[i] = "{"}
        closes == {i \in DOMAIN text : text[i] = "}"}
    IN IF opens = {} THEN <<>>
       ELSE LET first == CHOOSE i \in opens : \A j \in opens : i <= j
                after == {j \in closes : j > first}
            IN IF after = {} THEN <<>>
               ELSE SubSeq(text, first, CHOOSE j \in after : \A l \in after : l <= j)

\* the strict parse, then the parse of the extracted block
\* (fetch_negative_bank_events): the text parsed last and the outcome
ParseContent(content) ==
    IF Loads(content) THEN [text |-> content, result |-> "data"]
    ELSE LET json_text == ExtractJsonBlock(content)
         IN IF json_text = <<>>
            THEN [text |-> <<>>, result |-> "JSONStructureError"]
            ELSE [text |-> json_text,
                  result |-> IF Loads(json_text) THEN "data" ELSE "JSONStructureError"]

\* re.search(r'```(?:json)?\s*(\{.*?\})\s*```', ...): the group of the
\* leftmost fence that opens a block, up to the nearest "}" before a fence
FencedBlock(content) ==
    LET Ends(i) == {j \in DOMAIN content :
                      j > i + 1 /\ j < Len(content)
                      /\ content[j] = "}" /\ content[j + 1] = "f"}
        starts == {i \in DOMAIN content :
                     /\ content[i] = "f" /\ i < Len(content)
                     /\ content[i + 1] = "{" /\ Ends(i) # {}}
    IN IF starts = {} THEN <<>>
       ELSE LET i == CHOOSE a \in starts : \A b \in starts : a <= b
                j == CHOOSE a \in Ends(i) : \A b \in Ends(i) : a <= b
            IN SubSeq(content, i + 1, j)

\* the brace-counting loop from position i: the first span from a "{" met at
\* count 0 to the "}" that brings the count back to 0 and that loads
RECURSIVE BraceScan(_, _, _, _)
BraceScan(content, i, brace_count, start_idx) ==
    IF i > Len(content) THEN <<>>
    ELSE IF content[i] = "{"
         THEN BraceScan(content, i + 1, brace_count + 1,
                        IF brace_count = 0 THEN i ELSE start_idx)
    ELSE IF content[i] = "}"
         THEN IF brace_count - 1 = 0 /\ start_idx # -1
                 /\ Loads(SubSeq(content, start_idx, i))
              THEN SubSeq(content, start_idx, i)
              ELSE BraceScan(content, i + 1, brace_count - 1, start_idx)
    ELSE BraceScan(content, i + 1, brace_count, start_idx)

\* _validate_and_repair_json, then the caller's json.loads of its text
ValidateAndRepairJson(content) ==
    IF Loads(content) THEN content
    ELSE IF FencedBlock(content) # <<>> /\ Loads(FencedBlock(content))
         THEN FencedBlock(content)
    ELSE IF BraceScan(content, 1, 0, -1) # <<>> THEN BraceScan(content, 1, 0, -1)
    ELSE content

RepairContent(content) ==
    LET json_text == ValidateAndRepairJson(content)
    IN [text |-> json_text,
        result |-> IF Loads(json_text) THEN "data" ELSE "JSONStructureError"]

---------------------------------------------------------------------------
(* The schema check of the collector (collect_event_data.py 204-243, 394-397).
   A payload is the parsed object: the set of its top-level keys, its
   query.timeframe (what it is: "absent", "string" or "object", and the keys
   of the object), its events (what it is: "string" or "list", and the
   items of the list), and each event is the set of its keys with what its
   sources value is ("absent", "list", "empty list", "string"). *)

RequiredTop == {"query", "events", "dedupe_note", "coverage_notes", "last_updated"}
RequiredTimeframe == {"start", "end", "timezone"}
RequiredEvent ==
    {"event_id", "title", "institutions", "categories", "event_date", "summary",
     "reputational_damage", "sources", "source_count", "confidence"}

\* _validate_min_schema: "ok" when it returns, else the error it raises
ValidateMinSchema(payload) ==
    IF ~(RequiredTop \subseteq payload.keys) THEN "JSONStructureError"
    ELSE IF payload.timeframe.is # "object" THEN "JSONStructureError"
    ELSE IF ~(RequiredTimeframe \subseteq payload.timeframe.keys) THEN "JSONStructureError"
    ELSE IF payload.events.is # "list" THEN "JSONStructureError"
    ELSE IF payload.events.items # <<>>
         THEN LET sample == payload.events.items[1]
              IN IF ~(RequiredEvent \subseteq sample.keys) THEN "JSONStructureError"
                 ELSE IF sample.sources # "list" THEN "JSONStructureError"
                 ELSE "ok"
    ELSE "ok"

\* the end of fetch_negative_bank_events: validate, then return the data
ReturnData(payload) ==
    IF ValidateMinSchema(payload) = "ok" THEN "data" ELSE ValidateMinSchema(payload)

---------------------------------------------------------------------------
(* The identity search of BankFind (ingestion/connectors/ffiec_bankfind.py
   45-88, 200-246, 248-310).  The registry's answer to a request is either
   "raised" (the request or response.json() raised) or "ok" with the list
   under 'data'; an institution is a record with CERT and, unless the key is
   missing, NAME. *)

\* the length of the longest common subsequence of two texts
RECURSIVE Lcs(_, _)
Lcs(a, b) ==
    IF a = <<>> \/ b = <<>> THEN 0
    ELSE IF Head(a) = Head(b) THEN 1 + Lcs(Tail(a), Tail(b))
    ELSE LET l == Lcs(Tail(a), b)
             r == Lcs(a, Tail(b))
         IN IF l >= r THEN l ELSE r

\* rapidfuzz fuzz.ratio(a, b) = 100 * 2 * lcs / (len(a) + len(b)), 100 for
\* two empty texts, kept as a fraction
Ratio(a, b) ==
    IF Len(a) + Len(b) = 0 THEN [num |-> 100, den |-> 1]
    ELSE [num |-> 200 * Lcs(a, b), den |-> Len(a) + Len(b)]

\* score > other
Above(score, other) == score.num * other.den > other.num * score.den
\* score >= other
NotBelow(score, other) == score.num * other.den >= other.num * score.den

\* score >= 80
AtThreshold(score) == NotBelow(score, [num |-> 80, den |-> 1])
\* score > 80
AboveThreshold(score) == Above(score, [num |-> 80, den |-> 1])

\* search_institution: without the key no request is made
SearchInstitution(api_key, answer) ==
    IF api_key = None THEN [ret |-> None, requests |-> 0]
    ELSE IF answer.kind = "raised" THEN [ret |-> None, requests |-> 1]
    ELSE IF answer.data # <<>> THEN [ret |-> Some(answer.data[1]), requests |-> 1]
    ELSE [ret |-> None, requests |-> 1]

\* the loop over institutions from position i with the best so far
RECURSIVE BestMatch(_, _, _, _, _)
BestMatch(name, institutions, i, best_match, best_score) ==
    IF i > Len(institutions) THEN best_match
    ELSE LET inst == institutions[i]
             inst_name == IF "NAME" \in DOMAIN inst THEN inst.NAME ELSE ""
             score == Ratio(StrLower(Chars(name)), StrLower(Chars(inst_name)))
         IN IF Above(score, best_score) /\ AboveThreshold(score)
            THEN BestMatch(name, institutions, i + 1, Some(inst), score)
            ELSE BestMatch(name, institutions, i + 1, best_match, best_score)

\* resolve_institution_identity: the exact search, then the listing, which
\* is requested whether or not there is a key
ResolveInstitutionIdentity(api_key, name, exact, listing) ==
    LET result == SearchInstitution(api_key, exact)
    IN IF result.ret # None THEN result
       ELSE [ret |-> IF listing.kind = "raised" THEN None
                     ELSE BestMatch(name, listing.data, 1, None, [num |-> 0, den |-> 1]),
             requests |-> result.requests + 1]

---------------------------------------------------------------------------
(* Specifications *)

InitRepo == RepoInit /\ HistInit /\ RegistryIdle /\ SchedIdle /\ RerunIdle /\ FetchIdle /\ PureIdle

NextRepo ==
    \/ \E e \in RepoPool : UpsertEvent(e) /\ UNCHANGED <<schedVars, rerunVars, fetchVars, pureVars, txn, clients>>
    \/ \E e \in RepoPool : UpsertEventRaises(e) /\ UNCHANGED <<schedVars, rerunVars, fetchVars, pureVars, txn, clients>>

SpecRepo == InitRepo /\ [][NextRepo]_vars

\* Upserts statement by statement on two connections
TxnPool ==
    {e \in RepoPool : e.title # "Consent Order" \/ (e.customers_affected = None /\ Len(e.sources) = 1 /\ e.sources[1].title = "Order A")}

InitTxn == RepoInit /\ HistInit /\ RegistryIdle /\ SchedIdle /\ RerunIdle /\ FetchIdle /\ PureIdle

NextTxn ==
    \/ \E w \in Writers, e \in TxnPool :
          CallUpsert(w, e) /\ UNCHANGED <<histVars, schedVars, rerunVars, fetchVars, pureVars, clients>>
    \/ \E w \in Writers :
          WriteEventRow(w) /\ UNCHANGED <<histVars, schedVars, rerunVars, fetchVars, pureVars, clients>>
    \/ \E w \in Writers :
          LockTimeout(w) /\ UNCHANGED <<histVars, schedVars, rerunVars, fetchVars, pureVars, clients>>
    \/ \E w \in Writers :
          DeleteSourceRows(w) /\ UNCHANGED <<histVars, schedVars, rerunVars, fetchVars, pureVars, clients>>
    \/ \E w \in Writers :
          InsertSourceRow(w) /\ UNCHANGED <<histVars, schedVars, rerunVars, fetchVars, pureVars, clients>>
    \/ \E w \in Writers :
          CommitUpsert(w) /\ UNCHANGED <<histVars, schedVars, rerunVars, fetchVars, pureVars, clients>>
    \/ \E w \in Writers :
          StatementRaises(w) /\ UNCHANGED <<histVars, schedVars, rerunVars, fetchVars, pureVars, clients>>
    \/ \E w \in Writers :
          UpsertReturned(w) /\ UNCHANGED <<histVars, schedVars, rerunVars, fetchVars, pureVars, clients>>

SpecTxn == InitTxn /\ [][NextTxn]_vars

\* The scheduler's operations, in an environment drawn at the start: what
\* each connector's fetch_updates meets and which upserts raise.
InitSched ==
    /\ RepoInit /\ HistInit /\ RegistryIdle /\ RerunIdle /\ FetchIdle /\ PureIdle
    /\ cond \in [fdic_edo : Conds("fdic_edo"), occ_enforcement : Conds("occ_enforcement"),
                 ffiec_bankfind : {Up(<<>>)},
                 newsapi : QuietConds, mediastack : QuietConds]
    /\ failing \in SUBSET SchedEventIds
    /\ report = NoReport
    /\ calls = <<>>

NextSched ==
    \/ RunDaily /\ UNCHANGED <<histVars, rerunVars, fetchVars, pureVars, txn>>
    \/ \E ym \in BackfillMonths :
          RunMonthlyBackfill(ym[1], ym[2]) /\ UNCHANGED <<histVars, rerunVars, fetchVars, pureVars, txn>>
    \/ \E c \in Connectors : RunConnector(c) /\ UNCHANGED <<histVars, rerunVars, fetchVars, pureVars, txn>>

SpecSched == InitSched /\ [][NextSched]_vars

\* The scheduler's operations and health_check, with and without the
\* registry's API key
InitHealth ==
    /\ RepoInit /\ HistInit /\ RegistryIdle /\ RerunIdle /\ FetchIdle /\ PureIdle
    /\ cond \in [fdic_edo : {Up(<<>>), Up(<<EvF1>>), Up(<<EvF1, EvF2>>), Down, Faulty},
                 occ_enforcement : {Up(<<EvO1>>), Faulty},
                 ffiec_bankfind : {Up(<<>>), Down},
                 newsapi : QuietConds, mediastack : {Up(<<>>)}]
    /\ failing = {}
    /\ report = NoReport
    /\ calls = <<>>

NextHealth ==
    \/ RunDaily /\ Remember /\ UNCHANGED <<histVars, fetchVars, pureVars, txn>>
    \/ \E ym \in BackfillMonths :
          RunMonthlyBackfill(ym[1], ym[2]) /\ Remember /\ UNCHANGED <<histVars, fetchVars, pureVars, txn>>
    \/ \E c \in Connectors : RunConnector(c) /\ Remember /\ UNCHANGED <<histVars, fetchVars, pureVars, txn>>
    \/ HealthCheck /\ Remember /\ UNCHANGED <<histVars, fetchVars, pureVars, txn>>

SpecHealth == InitHealth /\ [][NextHealth]_vars

\* The same operations run again and again while every connector keeps
\* returning what it returned; only the storage fault comes and goes.
InitRerun ==
    /\ RepoInit /\ HistInit /\ RegistryIdle /\ RerunIdle /\ FetchIdle /\ PureIdle
    /\ cond \in [fdic_edo : Conds("fdic_edo"), occ_enforcement : Conds("occ_enforcement"),
                 ffiec_bankfind : {Up(<<>>)}, newsapi : {Up(<<>>)}, mediastack : {Up(<<>>)}]
    /\ failing = {}
    /\ report = NoReport
    /\ calls = <<>>

NextRerun ==
    \/ RunDaily /\ Remember /\ UNCHANGED <<histVars, fetchVars, pureVars, txn>>
    \/ \E c \in Collecting : RunConnector(c) /\ Remember /\ UNCHANGED <<histVars, fetchVars, pureVars, txn>>
    \/ FaultChanges /\ UNCHANGED <<histVars, rerunVars, fetchVars, pureVars, txn, clients>>

SpecRerun == InitRerun /\ [][NextRerun]_vars

\* Backfills of the two months over feeds dated around their boundaries
InitBackfill ==
    /\ RepoInit /\ HistInit /\ RegistryIdle /\ RerunIdle /\ FetchIdle /\ PureIdle
    /\ \E f \in SeqsUpTo(BackfillPool, MaxFetch) :
          cond = [c \in Connectors |-> IF c = "fdic_edo" THEN Up(f) ELSE Up(<<>>)]
    /\ failing = {}
    /\ report = NoReport
    /\ calls = <<>>

NextBackfill ==
    \E ym \in BackfillMonths :
       RunMonthlyBackfill(ym[1], ym[2]) /\ UNCHANGED <<histVars, rerunVars, fetchVars, pureVars, txn>>

SpecBackfill == InitBackfill /\ [][NextBackfill]_vars

\* fetch_updates of one connector over a source drawn at the start
AllMonths(o) == [i \in 1..MonthsProbed |-> o]
MixedMonths == [i \in 1..MonthsProbed |-> IF i = 2 THEN "ok" ELSE IF i = 3 THEN "unreachable" ELSE "404"]
Listings == SeqsUpTo(ItemPool, MaxItems)
FetchSites ==
    [kind : {"fdic_edo"}, today : {Today}, search : Outcomes,
     months : {NoMonths}, listed : Listings]
    \cup [kind : {"occ_enforcement"}, today : {Today}, search : Outcomes,
          months : {AllMonths("404"), AllMonths("unreachable"), MixedMonths},
          listed : Listings]
    \cup [kind : {"subclass"}, today : {Today}, search : {"ok", "raise"},
          months : {NoMonths}, listed : Listings]

InitFetch ==
    /\ RepoInit /\ HistInit /\ RegistryIdle /\ SchedIdle /\ RerunIdle /\ PureIdle
    /\ site \in FetchSites
    /\ fu = Idle
    /\ client = "none"
    /\ made = 0
    /\ runs = 0

NextFetch ==
    \/ CallDiscover /\ UNCHANGED <<repoVars, histVars, schedVars, rerunVars, pureVars, txn, clients>>
    \/ ProcessItem /\ UNCHANGED <<repoVars, histVars, schedVars, rerunVars, pureVars, txn, clients>>
    \/ Return /\ UNCHANGED <<repoVars, histVars, schedVars, rerunVars, pureVars, txn, clients>>
    \/ FetchAgain /\ UNCHANGED <<repoVars, histVars, schedVars, rerunVars, pureVars, txn, clients>>

SpecFetch == InitFetch /\ [][NextFetch]_vars

\* discover_items of the regulator connectors over every answer of the
\* search page and of each monthly news release
Todays == {Today, Date(2024, 7, 15)}
DiscoverSites ==
    [kind : {"fdic_edo"}, today : Todays, search : Outcomes,
     months : {NoMonths}, listed : SeqsUpTo({ItA, ItB}, MaxItems)]
    \cup [kind : {"occ_enforcement"}, today : Todays, search : Outcomes,
          months : [1..MonthsProbed -> Outcomes],
          listed : SeqsUpTo({ItA}, MaxItems)]

InitDiscover ==
    /\ RepoInit /\ HistInit /\ RegistryIdle /\ SchedIdle /\ RerunIdle /\ PureIdle
    /\ site \in DiscoverSites
    /\ fu = Idle
    /\ client = "none"
    /\ made = 0
    /\ runs = 0

NextDiscover == DiscoverOnly /\ UNCHANGED <<repoVars, histVars, schedVars, rerunVars, pureVars, txn, clients>>

SpecDiscover == InitDiscover /\ [][NextDiscover]_vars

\* One input, drawn at the start, is handed to a function of the connectors
\* or of the normalizers again and again, each call at its own time.
MaxCalls == 2

\* when a call is made: the day date.today() answers
Times == [today : Todays]

\* the function given names, applied to the arguments given carries
Eval(x, t) ==
    CASE x.fn = "generate_event_id" -> GenerateEventId(x.source, x.external_id, x.date)
      [] x.fn = "normalize_item" -> NormalizeItem(x.kind, x.parsed, t.today)
      [] x.fn = "calculate_materiality_score" -> CalculateMaterialityScore(x.event_data, 1)
      [] x.fn = "make_request" -> MakeRequest(x.path, x.answers, 1, 0)
      [] x.fn = "request_loop" -> RequestLoop(x.answers, x.max_retries, 0, 0)
      [] x.fn = "parse_content" -> ParseContent(x.content)
      [] x.fn = "repair_content" -> RepairContent(x.content)
      [] x.fn = "return_data" -> ReturnData(x.payload)
      [] x.fn = "search_institution" -> SearchInstitution(x.api_key, x.exact)
      [] x.fn = "resolve_institution_identity" ->
            ResolveInstitutionIdentity(x.api_key, x.name, x.exact, x.listing)
      [] x.fn = "fetch_parse_normalize" ->
            [confidence |-> Confidence(ParsedData(x.kind, ItemData(x.page)))]
      [] x.fn = "map_category" -> MapCategory(x.text)
      [] x.fn = "map_regulator" -> MapRegulator(x.text)
      [] x.fn = "map_nature" -> MapNature(x.text)
      [] x.fn = "occ_tags" -> OccTags(x.parsed)
      [] x.fn = "extract_money_amounts" -> ExtractMoneyAmounts(Chars(x.text))
      [] x.fn = "normalize_money_to_usd" -> NormalizeMoneyToUsd(Chars(x.text))

Apply ==
    /\ given.fn # "none"
    /\ Len(gave) < MaxCalls
    /\ \E t \in Times : gave' = Append(gave, [time |-> t, ret |-> Eval(given, t)])
    /\ UNCHANGED given

NextPure == Apply /\ UNCHANGED <<repoVars, histVars, schedVars, rerunVars, fetchVars, txn, clients>>

\* generate_event_id over external ids of up to MaxIdLen characters, and
\* over the order 2024-001 of 2024-01-15
MaxIdLen == 2
IdChars == {"a", "A", "1", "-", "_", ":", "E'"}
OrderNumber == <<"2", "0", "2", "4", "-", "0", "0", "1">>
IdInputs ==
    [fn : {"generate_event_id"}, source : {Chars("fdic_edo"), Chars("occ_enforcement")},
     external_id : SeqsUpTo(IdChars, MaxIdLen) \cup {OrderNumber},
     date : {Date(2024, 1, 15), Date(2024, 11, 5)}]

InitIds ==
    /\ RepoInit /\ HistInit /\ RegistryIdle /\ SchedIdle /\ RerunIdle /\ FetchIdle
    /\ given \in IdInputs
    /\ gave = <<>>

SpecIds == InitIds /\ [][NextPure]_vars

\* normalize_item of the regulator connectors over what parse_item returns:
\* the parsed fields with or without a date, or {}
ParsedInputs ==
    [fn : {"normalize_item"}, kind : Concrete,
     parsed : [empty : {FALSE}, external_id : {"a", "b", "nr"}, title : {"Order A"},
               event_date : {None, Some(Date(2024, 1, 15)), Some(Date(2024, 2, 1))},
               valid : {TRUE}]
              \cup {EmptyParsed}]

InitNormalize ==
    /\ RepoInit /\ HistInit /\ RegistryIdle /\ SchedIdle /\ RerunIdle /\ FetchIdle
    /\ given \in ParsedInputs
    /\ gave = <<>>

SpecNormalize == InitNormalize /\ [][NextPure]_vars

\* calculate_materiality_score over event data around every threshold, with
\* and without each field, and with values of other types
ScoreInputs ==
    {[fn |-> "calculate_materiality_score", pen |-> x[1], cust |-> x[2], cats |-> x[3],
      title |-> x[4], event_data |-> EventData(x[1], x[2], x[3], x[4])] :
       x \in ({Absent, PyVal("str", "1000000000")}
                \cup {PyVal("int", n) : n \in {0, 999999, 1000000, 9999999, 10000000,
                                                99999999, 100000000, 999999999, 1000000000}})
             \X ({Absent} \cup {PyVal("int", n) : n \in {9999, 10000, 100000, 1000000,
                                                           4999999, 5000000}})
             \X {Absent, PyVal("list", <<"regulatory_action">>),
                  PyVal("list", <<"fine", "financial_performance">>),
                  PyVal("str", "Financial_Performance")}
             \X ({Absent}
                  \cup {PyVal("str", t) :
                          t \in {"Test Order", "CEO Resignation Scandal at Bank",
                                  "ESG controversy", "A workforce reduction",
                                  "Branch Closure", "Investigation opened"}})}

InitScore ==
    /\ RepoInit /\ HistInit /\ RegistryIdle /\ SchedIdle /\ RerunIdle /\ FetchIdle
    /\ given \in ScoreInputs
    /\ gave = <<>>

SpecScore == InitScore /\ [][NextPure]_vars

\* extract_money_amounts over texts that carry one dollar amount, and
\* normalize_money_to_usd over an amount with or without a word before it
\* and a unit after it
MoneyInputs ==
    {[fn |-> "extract_money_amounts", lead |-> x[1], amount |-> x[2], trail |-> x[3],
      text |-> x[1] \o x[2].s \o x[3]] :
       x \in {y \in {"", "pay ", "civil money penalty of ", "a fine of ", "settlement of "}
                     \X {[s |-> "$1,000,000", n |-> 1000000], [s |-> "$25,000", n |-> 25000],
                          [s |-> "$500", n |-> 500]}
                     \X {"", ".", " in fees", " more"} :
                  (y[1] = "settlement of " \/ y[3] = " more") => y[2].n = 500}}
    \cup
    {[fn |-> "normalize_money_to_usd", lead |-> x[1], amount |-> x[2], unit |-> x[3],
      text |-> x[1] \o x[2].s \o x[3].s] :
       x \in {y \in {"", "penalty of ", "fine of ", "settlement of ", "payment of "}
                     \X {[s |-> "$2", n |-> 2], [s |-> "2", n |-> 2],
                          [s |-> "$1,000", n |-> 1000], [s |-> "500", n |-> 500]}
                     \X {[s |-> "", by |-> 1], [s |-> " thousand", by |-> 1000],
                          [s |-> "k", by |-> 1000], [s |-> " million", by |-> 1000000],
                          [s |-> " m", by |-> 1000000], [s |-> " billion", by |-> 1000000000],
                          [s |-> "b", by |-> 1000000000]} :
                  y[3].by = 1000000000 => y[2].n = 2}}

InitMoney ==
    /\ RepoInit /\ HistInit /\ RegistryIdle /\ SchedIdle /\ RerunIdle /\ FetchIdle
    /\ given \in MoneyInputs
    /\ gave = <<>>

SpecMoney == InitMoney /\ [][NextPure]_vars

\* a request through either path, over what each of its attempts meets
HttpAnswers ==
    [status : {200, 400, 403, 404, 500, 503}, retry_after : {None}]
    \cup [status : {429}, retry_after : {None, Some(2), Some(30)}]
    \cup [status : {0}, retry_after : {None}]
HttpInputs ==
    [fn : {"make_request"}, path : {"retry", "plain"},
     answers : [1..StopAfterAttempt -> HttpAnswers]]

InitHttp ==
    /\ RepoInit /\ HistInit /\ RegistryIdle /\ SchedIdle /\ RerunIdle /\ FetchIdle
    /\ given \in HttpInputs
    /\ gave = <<>>

SpecHttp == InitHttp /\ [][NextPure]_vars

\* the retry loop over what each request meets and over max_retries
MaxRetries == 3
LoopAnswers ==
    [status : {200, 404, 500}, retry_after : {None}, raised : {"none"}]
    \cup [status : {429}, raised : {"none"},
          retry_after : {None, Some("2"), Some("Wed, 21 Oct 2015 07:28:00 GMT")}]
    \cup [status : {0}, retry_after : {None},
          raised : {"Timeout", "RequestException"}]
LoopInputs ==
    [fn : {"request_loop"}, max_retries : 0..MaxRetries,
     answers : [1..MaxRetries -> LoopAnswers]]

InitLoop ==
    /\ RepoInit /\ HistInit /\ RegistryIdle /\ SchedIdle /\ RerunIdle /\ FetchIdle
    /\ given \in LoopInputs
    /\ gave = <<>>

SpecLoop == InitLoop /\ [][NextPure]_vars

\* both parsers over every content of up to MaxContent tokens
MaxContent == 5
ContentInputs ==
    [fn : {"parse_content", "repair_content"},
     content : SeqsUpTo({"{", "}", "k", "1", "p", "f"}, MaxContent) \ {<<>>}]

InitContent ==
    /\ RepoInit /\ HistInit /\ RegistryIdle /\ SchedIdle /\ RerunIdle /\ FetchIdle
    /\ given \in ContentInputs
    /\ gave = <<>>

SpecContent == InitContent /\ [][NextPure]_vars

\* the schema check over payloads that lack one key somewhere, or none
MaxEvents == 2
AllOrOneLess(S) == {S} \cup {S \ {k} : k \in S}
SchemaEvents ==
    [keys : {RequiredEvent, RequiredEvent \ {"title"}}, sources : {"list", "empty list", "string"}]
    \cup [keys : {RequiredEvent \ {"sources"}}, sources : {"absent"}]
SchemaInputs ==
    [fn : {"return_data"},
     payload : [keys : AllOrOneLess(RequiredTop),
                timeframe : [is : {"absent", "string"}, keys : {{}}]
                            \cup [is : {"object"}, keys : AllOrOneLess(RequiredTimeframe)],
                events : [is : {"string"}, items : {<<>>}]
                         \cup [is : {"list"}, items : SeqsUpTo(SchemaEvents, MaxEvents)]]]

InitSchema ==
    /\ RepoInit /\ HistInit /\ RegistryIdle /\ SchedIdle /\ RerunIdle /\ FetchIdle
    /\ given \in SchemaInputs
    /\ gave = <<>>

SpecSchema == InitSchema /\ [][NextPure]_vars

\* the pipeline of one item over every answer of its detail page and of
\* its PDF
Pages(kind) ==
    [detail : {"unreachable"}, pdf : {"no link"}, text : {NoText}]
    \cup [detail : {"ok"}, pdf : {"no link", "failed"}, text : {NoText}]
    \cup [detail : {"ok"}, pdf : {"ok"},
          text : {NoText} \cup [len : {1}, patterns : SUBSET PdfPatterns(kind)]]
ConfidenceInputs ==
    UNION {[fn : {"fetch_parse_normalize"}, kind : {kind}, page : Pages(kind)] : kind \in Concrete}

InitConfidence ==
    /\ RepoInit /\ HistInit /\ RegistryIdle /\ SchedIdle /\ RerunIdle /\ FetchIdle
    /\ given \in ConfidenceInputs
    /\ gave = <<>>

SpecConfidence == InitConfidence /\ [][NextPure]_vars

\* the identity search with and without the key, over listings of up to
\* MaxListed institutions whose names are at, above and below the threshold
MaxListed == 3
ListedNames == {"Abcde", "abcdx", "abcd", "bcde", "abcdex"}
Listed(names) ==
    [i \in DOMAIN names |->
        IF names[i] = "" THEN [CERT |-> i] ELSE [CERT |-> i, NAME |-> names[i]]]
RegistryAnswers(n) ==
    {[kind |-> "raised", data |-> <<>>]}
    \cup {[kind |-> "ok", data |-> Listed(names)] :
            names \in SeqsUpTo(ListedNames \cup {""}, n)}
IdentityInputs ==
    [fn : {"search_institution", "resolve_institution_identity"},
     api_key : {None, Some("key")}, name : {"abcde"},
     exact : RegistryAnswers(1), listing : {[kind |-> "raised", data |-> <<>>]}]
    \cup [fn : {"resolve_institution_identity"},
          api_key : {None, Some("key")}, name : {"abcde"},
          exact : {[kind |-> "raised", data |-> <<>>], [kind |-> "ok", data |-> <<>>],
                   [kind |-> "ok", data |-> Listed(<<"abcde">>)]},
          listing : RegistryAnswers(MaxListed)]

InitIdentity ==
    /\ RepoInit /\ HistInit /\ RegistryIdle /\ SchedIdle /\ RerunIdle /\ FetchIdle
    /\ given \in IdentityInputs
    /\ gave = <<>>

SpecIdentity == InitIdentity /\ [][NextPure]_vars

\* map_category and map_regulator over every pattern of their dict as the
\* text, and over texts with capitals, with two patterns, and with none
MapInputs ==
    [fn : {"map_category"},
     text : {CategoryMappings[i][1] : i \in DOMAIN CategoryMappings}
            \cup {"Consent Order", "Civil Money Penalty", "unknown term", "",
                  "Wire fraud investigation"}]
    \cup [fn : {"map_regulator"},
          text : {RegulatorMappings[i][1] : i \in DOMAIN RegulatorMappings}
                 \cup {"FDIC", "the second circuit", "unknown", "",
                       "state attorney general and the cfpb"}]
    \cup [fn : {"map_nature"},
          text : {NatureMappings[i][1] : i \in DOMAIN NatureMappings}
                 \cup {"Corporate Governance and fair lending", "consent order", ""}]
    \cup [fn : {"occ_tags"},
          parsed : [action_type : {"", "Consent Order", "Civil Money Penalty",
                                   "Cease and Desist for regulatory violation"},
                    penalty_amount : {0, 25000},
                    subject_matter : {"", "BSA/AML compliance", "Fair Lending",
                                      "unsafe practices"}]]

InitMap ==
    /\ RepoInit /\ HistInit /\ RegistryIdle /\ SchedIdle /\ RerunIdle /\ FetchIdle
    /\ given \in MapInputs
    /\ gave = <<>>

SpecMap == InitMap /\ [][NextPure]_vars

---------------------------------------------------------------------------
(* Claims about the repository, checked under SpecRepo *)

Returned(call) == call.ret \in {"true", "false"}
EventRowsOf(tbl, id) == {r \in tbl : r.event_id = id}

\* C1: when upsert_event(e) is called twice in a row with the same payload
\* and both calls return, the second call returns false and leaves the event
\* rows and the source rows as the first call left them; and a call returns
\* true only if it wrote: the events table differs from the one it found.
C1_UpsertTwiceIdempotent ==
    /\ (Returned(prev) /\ Returned(last) /\ last.event = prev.event)
          => /\ last.ret = "false"
             /\ events = before.events
             /\ sources = before.sources
    /\ last.ret = "true" => events # before.events

\* C1 witness: a first call that wrote, then the same payload again
C1_Witness ==
    /\ prev.ret = "true" /\ last.ret = "false" /\ last.event = prev.event
    /\ events # {}

\* C2: for every event_id the events table holds exactly one row once an
\* upsert for the id has returned (none before), its payload is the one last
\* upserted, the source rows of the id are exactly the sources of that
\* payload in order, and a returning upsert returns true exactly when the
\* payload it found stored differs from the incoming one (or none is stored).
C2_LatestPayloadAndSources ==
    /\ \A id \in EventIds :
          IF latest[id] = None
          THEN EventRowsOf(events, id) = {} /\ SourceRowsOf(sources, id) = <<>>
          ELSE LET e == latest[id][1]
               IN /\ Cardinality(EventRowsOf(events, id)) = 1
                  /\ \A r \in EventRowsOf(events, id) : Deserialize(r.payload) = e
                  /\ SourceRowsOf(sources, id)
                        = [i \in DOMAIN e.sources |-> SourceRow(id, e.sources[i])]
    /\ Returned(last) =>
          (last.ret = "true"
             <=> Existing(before.events, last.event[1].event_id)
                   # Some(Serialize(last.event[1])))

\* C2 witness: an update with a differing payload has replaced source rows
C2_Witness ==
    /\ last.ret = "true"
    /\ Existing(before.events, last.event[1].event_id) # None
    /\ LET id == last.event[1].event_id
       IN \E r \in Range(SourceRowsOf(before.sources, id)) :
              r \notin Range(SourceRowsOf(sources, id))

---------------------------------------------------------------------------
(* Claims about the scheduler *)

\* the upsert calls an operation made for connector c, and their events
CallsOf(c) == SelectSeq(calls, LAMBDA k : k.connector = c)
EventsOfCalls(cs) == [i \in DOMAIN cs |-> cs[i].event]

\* an operation's report records that an upsert raised
HasEventError(rep) == \E k \in DOMAIN rep.errors : rep.errors[k].event_id # None

\* the sum of events_stored over the entries with status success
RECURSIVE SumStored(_, _)
SumStored(entries, i) ==
    IF i > Len(Registry) THEN 0
    ELSE (IF Registry[i] \in DOMAIN entries /\ entries[Registry[i]].status = "success"
          THEN entries[Registry[i]].events_stored ELSE 0)
         + SumStored(entries, i + 1)

\* C3: when run_daily_collection (or run_connector for one connector) runs
\* twice in a row, the connectors returning the same events both times and
\* no upsert raising in either run, the second run reports events_stored = 0
\* for every connector and total_events = 0, and leaves the events and
\* sources tables as the first run left them.
C3_SecondRunStoresNothing ==
    /\ (/\ prevReport.kind = "daily" /\ report.kind = "daily"
        /\ ~HasEventError(prevReport) /\ ~HasEventError(report))
          => /\ report.total_events = 0
             /\ \A c \in DOMAIN report.connectors : report.connectors[c].events_stored = 0
             /\ events = beforeRun.events
             /\ sources = beforeRun.sources
    /\ (/\ prevReport.kind = "connector" /\ report.kind = "connector"
        /\ prevReport.connector = report.connector
        /\ ~HasEventError(prevReport) /\ ~HasEventError(report))
          => /\ report.events_stored = 0
             /\ events = beforeRun.events
             /\ sources = beforeRun.sources

\* what the report of run_daily_collection must be for connector c
DailyEntryAsExpected(c) ==
    IF cond[c].kind = "raise"
    THEN /\ report.connectors[c].status = "error"
         /\ CallsOf(c) = <<>>
    ELSE /\ report.connectors[c].status = "success"
         /\ report.connectors[c].events_fetched = Len(FetchUpdates(c).events)
         /\ EventsOfCalls(CallsOf(c)) = FetchUpdates(c).events

\* C4: in run_daily_collection a connector whose fetch_updates raises does
\* not stop the others: the report has exactly one entry for every connector
\* but ffiec_bankfind, every connector whose fetch did not raise has status
\* success and had each of its events upserted, and total_events is the sum
\* of events_stored over the entries with status success.
C4_DailyIsolatesConnectors ==
    report.kind = "daily" =>
       /\ DOMAIN report.connectors = Collecting
       /\ \A c \in Collecting : DailyEntryAsExpected(c)
       /\ report.total_events = SumStored(report.connectors, 1)

\* C4 witness: the first connector's fetch raised and a later one stored
C4_Witness ==
    /\ report.kind = "daily"
    /\ cond["fdic_edo"].kind = "raise"
    /\ DOMAIN report.connectors = Collecting
    /\ report.connectors["occ_enforcement"].status = "success"
    /\ report.connectors["occ_enforcement"].events_stored = 1
    /\ report.total_events = 1

\* C5: in run_daily_collection and run_monthly_backfill a connector whose
\* source is unreachable is recorded with status error, zero counts and an
\* entry of its own in errors.
C5_UnreachableIsError ==
    report.kind \in {"daily", "monthly"} =>
       \A c \in Collecting :
          cond[c].kind = "down" =>
             /\ c \in DOMAIN report.connectors
             /\ report.connectors[c].status = "error"
             /\ report.connectors[c].events_fetched = 0
             /\ report.connectors[c].events_stored = 0
             /\ \E k \in DOMAIN report.errors :
                   report.errors[k] = [connector |-> c, event_id |-> None]

\* the events an operation has to store for connector c
ExpectedToStore(c) ==
    IF report.kind = "monthly"
    THEN SelectSeq(FetchUpdates(c).events,
                   LAMBDA e : InPeriod(e, report.period[1], report.period[2]))
    ELSE FetchUpdates(c).events

\* the connectors an operation ran to the end of their try block
RanConnectors ==
    IF report.kind = "connector"
    THEN (IF report.status = "success" THEN {report.connector} ELSE {})
    ELSE {c \in DOMAIN report.connectors : report.connectors[c].status = "success"}

StoredOf(c) ==
    IF report.kind = "connector" THEN report.events_stored
    ELSE report.connectors[c].events_stored

\* the report has an error entry for event id of connector c
ErrorRecorded(c, id) ==
    IF report.kind = "connector"
    THEN report.connector = c
         /\ \E k \in DOMAIN report.errors : report.errors[k].event_id = Some(id)
    ELSE \E k \in DOMAIN report.errors :
            report.errors[k] = [connector |-> c, event_id |-> Some(id)]

InMonth(feed, year, month) ==
    SelectSeq(feed, LAMBDA e : e.event_date[1] = year /\ e.event_date[2] = month)

\* C7: run_monthly_backfill(year, month) covers the first to the last day of
\* the month (the 31st of December, the 29th of February of a leap year),
\* hands to upsert_event exactly the fetched events dated in the month,
\* reports their number as events_in_period, which is less than
\* events_fetched exactly when an event outside the month was fetched, and
\* no row of a day outside the backfilled months is stored.
C7_BackfillKeepsTheMonth ==
    /\ report.kind = "monthly" =>
          LET year == report.period[1][1]
              month == report.period[1][2]
          IN /\ report.period = <<Date(year, month, 1), Date(year, month, DaysInMonth(year, month))>>
             /\ \A c \in DOMAIN report.connectors :
                   LET feed == FetchUpdates(c).events
                       kept == InMonth(feed, year, month)
                       entry == report.connectors[c]
                   IN entry.status = "success" =>
                         /\ EventsOfCalls(CallsOf(c)) = kept
                         /\ entry.events_fetched = Len(feed)
                         /\ entry.events_in_period = Len(kept)
                         /\ entry.events_stored <= entry.events_in_period
                         /\ (entry.events_in_period < entry.events_fetched
                               <=> \E i \in DOMAIN feed :
                                      ~(feed[i].event_date[1] = year /\ feed[i].event_date[2] = month))
    /\ \A r \in events :
          \E ym \in BackfillMonths :
             ParseIso(r.event_date)[1] = ym[1] /\ ParseIso(r.event_date)[2] = ym[2]

\* C7 witness: a leap February backfill that fetched the 29th of February
\* and the 1st of March and stored the first only
C7_Witness ==
    /\ report.kind = "monthly"
    /\ report.period = <<Date(2024, 2, 1), Date(2024, 2, 29)>>
    /\ LET feed == cond["fdic_edo"].feed
       IN /\ Len(feed) = 2
          /\ feed[1].event_date = Date(2024, 2, 29)
          /\ feed[2].event_date = Date(2024, 3, 1)
    /\ report.connectors["fdic_edo"].events_fetched = 2
    /\ report.connectors["fdic_edo"].events_in_period = 1
    /\ report.connectors["fdic_edo"].events_stored = 1

---------------------------------------------------------------------------
(* Claims about the connectors *)

\* the indices up to n of the items whose processing raises, or does not
Indices(n, raising) ==
    SelectSeq([i \in 1..n |-> i],
              LAMBDA i : Pipeline(site.kind, fu.items[i], site.today).raised = raising)

\* C8: in fetch_updates an exception of fetch_item_detail, parse_item or
\* normalize_item for one item is caught: whenever discover_items did not
\* raise, fetch_updates returns, every discovered item has been processed,
\* and the events returned are those of the items whose processing did not
\* raise, in the order of discovery; the items that raised contribute none.
C8_ItemFailureIsolated ==
    /\ fu.pc = "done" => (fu.result = "raised" <=> DiscoverItems(site).raised)
    /\ fu.pc = "items" \/ (fu.pc = "done" /\ fu.result = "returned") =>
          LET n == IF fu.pc = "done" THEN Len(fu.items) ELSE fu.idx - 1
          IN /\ fu.items = DiscoverItems(site).items
             /\ fu.origin = Indices(n, FALSE)
             /\ fu.failed = Indices(n, TRUE)
             /\ fu.events = [k \in DOMAIN fu.origin |->
                               Pipeline(site.kind, fu.items[fu.origin[k]], site.today).event]

\* C8 witness: the first item raised and the second one's event is returned
C8_Witness ==
    /\ fu.pc = "done" /\ fu.result = "returned"
    /\ Len(fu.items) = 2
    /\ fu.failed = <<1>>
    /\ fu.origin = <<2>>
    /\ Len(fu.events) = 1

\* C9: an item whose detail page could not be fetched is skipped: no event
\* that fetch_updates returns comes from such an item.
C9_FailedDetailIsSkipped ==
    (fu.pc = "done" /\ fu.result = "returned") =>
       \A k \in DOMAIN fu.origin : fu.items[fu.origin[k]].detail = "ok"

\* the number of monthly releases that answered
Answered(ms) == Cardinality({i \in DOMAIN ms : ms[i] = "ok"})

\* C10: discover_items of the regulator connectors never raises: the FDIC
\* connector returns the listing, or [] when the search page fails; the OCC
\* connector requests all six monthly releases whatever the earlier ones
\* answered (404 or no answer), returns the items of the releases that
\* answered followed by those of the enforcement page if it answered, and
\* so returns [] when nothing answers.
C10_DiscoveryNeverRaises ==
    fu.pc = "discovered" =>
       /\ fu.result = "returned"
       /\ site.kind = "fdic_edo" =>
             fu.items = (IF site.search = "ok" THEN site.listed ELSE <<>>)
       /\ site.kind = "occ_enforcement" =>
             /\ Len(fu.probed) = MonthsProbed
             /\ \A i \in 1..MonthsProbed :
                   /\ fu.probed[i].outcome = site.months[i]
                   /\ site.months[i] = "ok" =>
                         \E k \in DOMAIN fu.items : fu.items[k].release = Some(fu.probed[i].ym)
             /\ Len(fu.items) = Answered(site.months)
                                  + (IF site.search = "ok" THEN Len(site.listed) ELSE 0)
             /\ \A k \in DOMAIN fu.items :
                   k > Answered(site.months) => fu.items[k] = site.listed[k - Answered(site.months)]

\* C10 witness: the first monthly release answered 404, the second one
\* answered and its item is returned, the enforcement page did not answer
C10_Witness ==
    /\ fu.pc = "discovered" /\ fu.result = "returned"
    /\ site.kind = "occ_enforcement"
    /\ site.months[1] = "404" /\ site.months[2] = "ok"
    /\ site.search = "unreachable"
    /\ Len(fu.probed) = MonthsProbed
    /\ \E k \in DOMAIN fu.items : fu.items[k].release = Some(fu.probed[2].ym)

---------------------------------------------------------------------------
(* Claims about the connector's HTTP client, checked under SpecFetch *)

\* C11: whenever fetch_updates has returned or raised, discovery's raise
\* included, the connector holds no client; and every call of fetch_updates
\* works on a client constructed for it: while a call is in its loop the
\* client is open, and during and after the n-th call exactly n clients have
\* been constructed.
C11_ClientClosedAndFresh ==
    /\ fu.pc = "done" => client = "none" /\ made = runs
    /\ fu.pc = "items" => client = "open" /\ made = runs
    /\ fu.pc = "idle" => client = "none" /\ made = runs

\* C11 witness: a second call of fetch_updates is in its loop, on the second
\* client, after a first call that ended
C11_Witness ==
    /\ runs = 2 /\ made = 2
    /\ fu.pc = "items" /\ fu.idx > 1
    /\ client = "open"

---------------------------------------------------------------------------
(* Claims about event identifiers *)

\* the characters an event_id may be made of
KebabChars == Range(Ascii.lower) \cup Range(Ascii.digits) \cup {"-"}
WellFormedId(id) ==
    /\ \A i \in DOMAIN id : id[i] \in KebabChars
    /\ \A i \in 1..(Len(id) - 1) : ~(id[i] = "-" /\ id[i + 1] = "-")
    /\ id # <<>> => id[1] # "-" /\ id[Len(id)] # "-"

\* C12: every call of generate_event_id returns an id made of the characters
\* a-z, 0-9 and the hyphen only, with no two hyphens in a row and none at
\* either end; two calls with the same source name, external id and date
\* return the same id; and for fdic_edo, 2024-001 and 2024-01-15 the id is
\* fdic-edo-2024-001-2024-01-15.
C12_EventIdKebab ==
    given.fn = "generate_event_id" =>
       /\ \A k \in DOMAIN gave : WellFormedId(gave[k].ret)
       /\ \A j, k \in DOMAIN gave : gave[j].ret = gave[k].ret
       /\ (/\ given.source = Chars("fdic_edo") /\ given.external_id = OrderNumber
           /\ given.date = Date(2024, 1, 15))
             => \A k \in DOMAIN gave :
                   gave[k].ret = <<"f", "d", "i", "c", "-", "e", "d", "o", "-",
                                   "2", "0", "2", "4", "-", "0", "0", "1", "-",
                                   "2", "0", "2", "4", "-", "0", "1", "-", "1", "5">>

\* C12 witness: two calls were made for an external id whose characters had
\* to be lowered, replaced and collapsed
C12_Witness ==
    /\ given.fn = "generate_event_id"
    /\ given.external_id = <<"A", "_">>
    /\ Len(gave) = 2
    /\ gave[1].time # gave[2].time

\* C13: the event_id normalize_item assigns depends only on the source name,
\* the external id and the event date of the parsed item: two calls on the
\* same parsed item that both return an Event, whatever the days they are
\* made on, return the same event_id.
C13_EventIdSameOnEveryDay ==
    given.fn = "normalize_item" =>
       \A j, k \in DOMAIN gave :
          (~gave[j].ret.raised /\ ~gave[k].ret.raised)
             => gave[j].ret.event.event_id = gave[k].ret.event.event_id

\* C14: for a fixed source name generate_event_id is collision-free: the id
\* returned for an external id and a date is returned for no other pair of
\* external id and date.
C14_EventIdCollisionFree ==
    given.fn = "generate_event_id" =>
       \A k \in DOMAIN gave : \A y \in IdInputs :
          (/\ y.source = given.source
           /\ <<y.external_id, y.date>> # <<given.external_id, given.date>>)
             => GenerateEventId(y.source, y.external_id, y.date) # gave[k].ret

---------------------------------------------------------------------------
(* Claims about the materiality score, checked under SpecScore *)

\* the event data holds a number of at least n for the field
NumberAtLeast(v, n) == v.type = "int" /\ v.v >= n

\* the conditions of every rule that do not read penalties_usd
OtherConditions ==
    {c \in UNION {Range(MaterialityRules[r].conditions) : r \in DOMAIN MaterialityRules} :
        c.field # <<"amounts", "penalties_usd">>}

\* C15: calculate_materiality_score returns 5 for every event data whose
\* penalties_usd is at least 1,000,000,000, or whose customers_affected is at
\* least 5,000,000, or whose categories list contains financial_performance,
\* whatever its other fields hold.
C15_TopTier ==
    given.fn = "calculate_materiality_score" =>
       \A k \in DOMAIN gave :
          (\/ NumberAtLeast(given.pen, 1000000000)
           \/ NumberAtLeast(given.cust, 5000000)
           \/ (given.cats.type = "list"
                 /\ \E i \in DOMAIN given.cats.v : given.cats.v[i] = "financial_performance"))
             => gave[k].ret.score = 5

\* C15 witness: the category alone put an event with a small penalty, few
\* customers and a title naming a lower tier in tier 5
C15_Witness ==
    /\ given.fn = "calculate_materiality_score"
    /\ given.pen = PyVal("int", 999999)
    /\ given.cust = PyVal("int", 9999)
    /\ given.cats = PyVal("list", <<"fine", "financial_performance">>)
    /\ given.title = PyVal("str", "Branch Closure")
    /\ Len(gave) = 1 /\ gave[1].ret.score = 5

SatisfiedTiers(e) ==
    {MaterialityRules[r].score : r \in {q \in DOMAIN MaterialityRules :
        \E c \in DOMAIN MaterialityRules[q].conditions :
           Satisfied(MaterialityRules[q].conditions[c], e)}}

\* C17: calculate_materiality_score returns the score of the highest tier
\* with at least one satisfied condition, and 1 when no tier has one; the
\* score is an integer from 1 to 5; and the rules evaluated are those of the
\* tiers from 5 down to the one returned, none below it.
C17_HighestSatisfiedTier ==
    given.fn = "calculate_materiality_score" =>
       \A k \in DOMAIN gave :
          LET tiers == SatisfiedTiers(given.event_data)
              ret == gave[k].ret
          IN /\ ret.score \in 1..5
             /\ IF tiers = {} THEN ret.score = 1 /\ ret.consulted = <<5, 4, 3, 2, 1>>
                ELSE /\ ret.score \in tiers
                     /\ \A t \in tiers : t <= ret.score
                     /\ ret.consulted = [i \in 1..(6 - ret.score) |-> 6 - i]

\* C17 witness: conditions of tiers 4, 3 and 2 were satisfied together and
\* the score is 4
C17_Witness ==
    /\ given.fn = "calculate_materiality_score"
    /\ SatisfiedTiers(given.event_data) = {4, 3, 2}
    /\ given.title = PyVal("str", "A workforce reduction")
    /\ Len(gave) = 2 /\ gave[2].ret.score = 4

---------------------------------------------------------------------------
(* Claims about money amounts, checked under SpecMoney *)

\* C18: for a text that contains one dollar amount written with digits and
\* commas and no unit word, extract_money_amounts returns that amount as the
\* total and an original text that contains the amount as the text has it.
C18_OneAmountExtracted ==
    given.fn = "extract_money_amounts" =>
       \A k \in DOMAIN gave :
          /\ gave[k].ret.total = given.amount.n
          /\ Contains(gave[k].ret.original, Chars(given.amount.s))

\* the text is, as a whole, one match of one of the money patterns
MatchedLiteral(text) ==
    \E p \in DOMAIN MoneyPatterns : Findall(MoneyPatterns[p], Chars(text), 0) = <<Chars(text)>>

\* C19: for a literal matched by one of the money patterns,
\* normalize_money_to_usd returns the number multiplied by 10^3, 10^6 or 10^9
\* when the unit thousand or k, million or m, billion or b follows the
\* number, and the number itself when no unit follows it, whatever words
\* stand before the number.
C19_UnitDecidesMultiplier ==
    (given.fn = "normalize_money_to_usd" /\ MatchedLiteral(given.text)) =>
       \A k \in DOMAIN gave : gave[k].ret = given.amount.n * given.unit.by

---------------------------------------------------------------------------
(* Claims about the vocabulary mappings, checked under SpecMap *)

\* the terms of the longest patterns of the mappings that occur in the
\* lower-cased text
TermsOfLongest(mappings, text) ==
    LET occurs == {i \in DOMAIN mappings :
                      Contains(StrLower(Chars(text)), Chars(mappings[i][1]))}
    IN {mappings[i][2] : i \in {j \in occurs :
           \A q \in occurs : Len(mappings[q][1]) <= Len(mappings[j][1])}}

\* C20: map_category returns the term of the longest pattern of
\* CATEGORY_MAPPINGS that occurs in the lower-cased text, and other when no
\* pattern occurs; map_regulator likewise over REGULATOR_MAPPINGS, with Other.
C20_LongestPatternWins ==
    /\ given.fn = "map_category" =>
          \A k \in DOMAIN gave :
             LET terms == TermsOfLongest(CategoryMappings, given.text)
             IN IF terms = {} THEN gave[k].ret = "other" ELSE gave[k].ret \in terms
    /\ given.fn = "map_regulator" =>
          \A k \in DOMAIN gave :
             LET terms == TermsOfLongest(RegulatorMappings, given.text)
             IN IF terms = {} THEN gave[k].ret = "Other" ELSE gave[k].ret \in terms

\* C21: every tag the normalization produces is in the controlled
\* vocabulary: map_category returns a member of VALID_CATEGORIES, every
\* element of map_nature's result is in VALID_NATURE_TYPES, map_regulator
\* returns a member of VALID_REGULATORS, and the categories and the nature
\* normalize_item gives an Event are drawn from those sets.
C21_TagsInVocabulary ==
    \A k \in DOMAIN gave :
       /\ given.fn = "map_category" => gave[k].ret \in Valid.categories
       /\ given.fn = "map_regulator" => gave[k].ret \in Valid.regulators
       /\ given.fn = "map_nature" => Range(gave[k].ret) \subseteq Valid.nature
       /\ given.fn = "occ_tags" =>
             /\ Range(gave[k].ret.categories) \subseteq Valid.categories
             /\ Range(gave[k].ret.nature) \subseteq Valid.nature

---------------------------------------------------------------------------
(* Claims about the HTTP layer, checked under SpecHttp *)

\* a status the layer is to retry, or a failure of the transport
Transient(answer) == answer.status \in {429, 500, 502, 503, 504, 0}

\* C22: a request through the retry layer (_make_request) whose response has
\* a status outside 2xx other than 429, 500, 502, 503, 504 is surfaced after
\* the first attempt: exactly one request is issued.
C22_PermanentErrorNotRetried ==
    (/\ given.fn = "make_request" /\ given.path = "retry"
     /\ Raises(given.answers[1]) /\ ~Transient(given.answers[1]))
       => \A k \in DOMAIN gave :
             Len(gave[k].ret.attempts) = 1 /\ gave[k].ret.result # "response"

\* C23: on both request paths a call makes at most 3 attempts and ends; an
\* attempt that meets a transient failure is followed by another one unless
\* it was the third; and the call returns the response of the first attempt
\* with a 2xx status, or fails after its last attempt.
C23_TransientRetriedWithinBound ==
    given.fn = "make_request" =>
       \A k \in DOMAIN gave :
          LET tried == gave[k].ret.attempts
          IN /\ Len(tried) \in 1..3
             /\ \A i \in DOMAIN tried :
                   (Transient(tried[i].answer) /\ i < 3) => i < Len(tried)
             /\ IF ~Raises(tried[Len(tried)].answer)
                THEN gave[k].ret.result = "response"
                ELSE gave[k].ret.result # "response"
             /\ \A i \in 1..(Len(tried) - 1) : Raises(tried[i].answer)

\* C24: when an attempt through the retry layer receives 429 with a
\* Retry-After header of n seconds, the next attempt starts no earlier than
\* n seconds after it.
C24_RetryAfterHonoured ==
    (given.fn = "make_request" /\ given.path = "retry") =>
       \A k \in DOMAIN gave :
          LET tried == gave[k].ret.attempts
          IN \A i \in 1..(Len(tried) - 1) :
                (tried[i].answer.status = 429 /\ tried[i].answer.retry_after # None)
                   => tried[i + 1].at >= tried[i].at + tried[i].answer.retry_after[1]

---------------------------------------------------------------------------
(* Claims about the collector's retry loop, checked under SpecLoop *)

\* C25: in fetch_negative_bank_events a 429 is retried after the Retry-After
\* value when the header is present and after backoff^attempt otherwise, a
\* status >= 500 is retried after backoff^attempt, any other status but 200
\* raises an API error without a further request; one call posts at most
\* max_retries requests and ends with a document or an error.
C25_RetryLoop ==
    given.fn = "request_loop" =>
       \A k \in DOMAIN gave :
          LET reqs == gave[k].ret.requests
              n == Len(reqs)
          IN /\ n <= given.max_retries
             /\ gave[k].ret.result \in {"ok", "APIError", "ValueError"}
             /\ \A i \in 1..n :
                   LET a == reqs[i].answer
                   IN /\ (a.raised = "none" /\ a.status = 429 /\ i < given.max_retries) =>
                            /\ i < n
                            /\ reqs[i + 1].at - reqs[i].at =
                                  IF a.retry_after = None THEN BackoffPower(i)
                                  ELSE PyFloat(a.retry_after[1]).ms
                      /\ (a.raised = "none" /\ a.status >= 500 /\ i < given.max_retries) =>
                            /\ i < n
                            /\ reqs[i + 1].at - reqs[i].at = BackoffPower(i)
                      /\ (a.raised = "none" /\ a.status \notin {200, 429} /\ a.status < 500) =>
                            i = n /\ gave[k].ret.result = "APIError"

---------------------------------------------------------------------------
(* Claims about the parsing of the content, checked under SpecContent *)

\* the spans of the content from a "{" to the "}" that closes it
Balanced(content) ==
    LET Depth(i, j) == Cardinality({l \in i..j : content[l] = "{"})
                       - Cardinality({l \in i..j : content[l] = "}"})
    IN {<<i, j>> \in (DOMAIN content) \X (DOMAIN content) :
          /\ i < j /\ content[i] = "{" /\ content[j] = "}"
          /\ Depth(i, j) = 0
          /\ \A l \in i..(j - 1) : Depth(i, l) > 0}

\* the longest of them, the leftmost of the longest; <<>> when there is none
LargestBalanced(content) ==
    IF Balanced(content) = {} THEN <<>>
    ELSE LET b == CHOOSE x \in Balanced(content) :
                     \A y \in Balanced(content) :
                        \/ y[2] - y[1] < x[2] - x[1]
                        \/ (y[2] - y[1] = x[2] - x[1] /\ x[1] <= y[1])
         IN SubSeq(content, b[1], b[2])

\* C26: when the content is not valid JSON, the text parsed next is the
\* largest balanced {...} substring of the content, and JSONStructureError
\* is signalled only when there is no such substring or it does not parse.
C26_LargestBalancedBlockParsed ==
    (given.fn \in {"parse_content", "repair_content"} /\ ~Loads(given.content)) =>
       \A k \in DOMAIN gave :
          /\ LargestBalanced(given.content) # <<>> =>
                gave[k].ret.text = LargestBalanced(given.content)
          /\ gave[k].ret.result = "JSONStructureError" <=>
                \/ LargestBalanced(given.content) = <<>>
                \/ ~Loads(LargestBalanced(given.content))

---------------------------------------------------------------------------
(* Claims about the schema check, checked under SpecSchema *)

\* the collection schema: the top-level keys, the three keys of
\* query.timeframe, and every event with the required fields and a
\* non-empty list of sources
ValidDocument(payload) ==
    /\ RequiredTop \subseteq payload.keys
    /\ payload.timeframe.is = "object"
    /\ RequiredTimeframe \subseteq payload.timeframe.keys
    /\ payload.events.is = "list"
    /\ \A i \in DOMAIN payload.events.items :
          /\ RequiredEvent \subseteq payload.events.items[i].keys
          /\ payload.events.items[i].sources = "list"

\* C27: every document fetch_negative_bank_events returns validates against
\* the collection schema, every element of events included; a document that
\* does not raises JSONStructureError.
C27_ReturnedDocumentValid ==
    given.fn = "return_data" =>
       \A k \in DOMAIN gave :
          /\ gave[k].ret = "data" <=> ValidDocument(given.payload)
          /\ gave[k].ret # "data" => gave[k].ret = "JSONStructureError"

---------------------------------------------------------------------------
(* Claims about the identity search, checked under SpecIdentity *)

\* the similarity of the name to the institution at position i of a listing
Similarity(name, data, i) ==
    Ratio(StrLower(Chars(name)),
          StrLower(Chars(IF "NAME" \in DOMAIN data[i] THEN data[i].NAME ELSE "")))

\* the exact lookup has a result
ExactExists(x) == x.api_key # None /\ x.exact.kind = "ok" /\ x.exact.data # <<>>

\* the positions of a listing whose similarity no other position exceeds
Highest(name, data) ==
    {i \in DOMAIN data :
        \A j \in DOMAIN data : NotBelow(Similarity(name, data, i), Similarity(name, data, j))}

\* C28: resolve_institution_identity returns the exact lookup's result when
\* there is one; otherwise the fuzzy candidate of the highest similarity if
\* that similarity is strictly above 80, the first seen of several with the
\* highest similarity, and none when no candidate is above 80.
C28_ExactThenBestFuzzy ==
    given.fn = "resolve_institution_identity" =>
       \A k \in DOMAIN gave :
          IF ExactExists(given) THEN gave[k].ret.ret = Some(given.exact.data[1])
          ELSE LET data == given.listing.data
                   top == Highest(given.name, data)
               IN IF \E i \in top : LET sim == Similarity(given.name, data, i)
                                     IN sim.num > 80 * sim.den
                  THEN gave[k].ret.ret = Some(data[CHOOSE i \in top : \A j \in top : i <= j])
                  ELSE gave[k].ret.ret = None

\* C28 witness: no exact result, two candidates share the highest similarity,
\* which is above 80, a candidate at exactly 80 is listed too, and the second
\* of the listing, the first of the two, was returned
C28_Witness ==
    /\ given.fn = "resolve_institution_identity" /\ ~ExactExists(given)
    /\ given.listing.kind = "ok" /\ Len(given.listing.data) = 3
    /\ Highest(given.name, given.listing.data) = {2, 3}
    /\ Similarity(given.name, given.listing.data, 1) = [num |-> 800, den |-> 10]
    /\ gave # <<>> /\ gave[1].ret.ret = Some(given.listing.data[2])

\* C29: without the registry credential the identity search
\* (search_institution, and resolve_institution_identity through the exact
\* and the fuzzy step) returns none for every name and answer and does not
\* raise.
C29_NoKeyNoIdentity ==
    (given.fn \in {"search_institution", "resolve_institution_identity"}
     /\ given.api_key = None)
       => \A k \in DOMAIN gave : gave[k].ret.ret = None

---------------------------------------------------------------------------
(* Claims about get_events, checked under SpecRepo *)

\* the filters get_events is asked with
DateFilters == {None, Some(Date(2023, 12, 31)), Some(Date(2024, 1, 15))}
ListFilters(a, b) == {None, Some(<<>>), Some(<<a>>), Some(<<b>>), Some(<<a, b>>)}

\* the event itself satisfies every supplied filter: the dimensions ANDed,
\* the values inside one dimension ORed
SatisfiesFilters(e, start_date, end_date, categories, regulators) ==
    /\ start_date # None => DateLE(start_date[1], e.event_date)
    /\ end_date # None => DateLE(e.event_date, end_date[1])
    /\ (categories # None /\ categories[1] # <<>>) =>
          Range(categories[1]) \cap Range(e.categories) # {}
    /\ (regulators # None /\ regulators[1] # <<>>) =>
          Range(regulators[1]) \cap Range(e.regulators) # {}

\* C30: after any sequence of upserts, get_events returns exactly the stored
\* events that themselves satisfy every supplied filter, ordered by
\* event_date descending.
C30_GetEventsFiltersStoredEvents ==
    \A start_date \in DateFilters, end_date \in DateFilters,
       categories \in ListFilters("regulatory_action", "fine"),
       regulators \in ListFilters("FDIC", "OCC") :
       LET got_events == GetEvents(events, start_date, end_date, categories, regulators)
           stored == {Deserialize(r.payload) : r \in events}
       IN /\ Range(got_events) =
                {e \in stored : SatisfiesFilters(e, start_date, end_date, categories, regulators)}
          /\ Len(got_events) = Cardinality(Range(got_events))
          /\ \A i \in 1..(Len(got_events) - 1) :
                DateLE(got_events[i + 1].event_date, got_events[i].event_date)

---------------------------------------------------------------------------
(* Claims about get_statistics and the columns, checked under SpecRepo *)

\* the events the stored payloads decode to
StoredEvents == {Deserialize(r.payload) : r \in events}

\* how many times a value stands in the lists that field holds over the
\* stored events
Occurrences(field, value) ==
    Cardinality(UNION {{<<e.event_id, i>> : i \in {j \in DOMAIN e[field] : e[field][j] = value}} :
                          e \in StoredEvents})

\* C31: after any sequence of upserts the category and regulator histograms
\* and the summed penalties of get_statistics are those obtained by decoding
\* the stored payload of every event.
C31_StatisticsFollowPayloads ==
    LET stats == GetStatistics(events)
        Histogram(field) ==
            LET keys == UNION {Range(e[field]) : e \in StoredEvents}
            IN [key \in keys |-> Occurrences(field, key)]
    IN /\ stats.category_distribution = Histogram("categories")
       /\ stats.regulator_distribution = Histogram("regulators")
       /\ stats.total_penalties_usd = SumOver(StoredEvents, [e \in StoredEvents |-> e.penalties_usd])

\* C38: after any sequence of upsert_event calls, in every events row the
\* columns event_date, categories, regulators, penalties_usd and
\* customers_affected equal the values of that row's stored payload.
C38_ColumnsFollowPayload ==
    \A r \in events :
       LET e == Deserialize(r.payload)
       IN /\ r.event_date = IsoFormat(e.event_date)
          /\ JsonLoads(r.categories) = e.categories
          /\ JsonLoads(r.regulators) = e.regulators
          /\ r.penalties_usd = e.penalties_usd
          /\ r.customers_affected = e.customers_affected

---------------------------------------------------------------------------
(* Claims about concurrent upserts, checked under SpecTxn *)

\* the rows of table sources an event has when all of its sources are stored
AllSourceRows(e) == [i \in DOMAIN e.sources |-> SourceRow(e.event_id, e.sources[i])]

\* what a reader finds: every event row with exactly the sources of its
\* payload, and no source row without an event row
ReaderConsistent(evTbl, srcTbl) ==
    /\ \A r \in evTbl : SourceRowsOf(srcTbl, r.event_id) = AllSourceRows(Deserialize(r.payload))
    /\ \A id \in DOMAIN srcTbl : srcTbl[id] # <<>> => \E r \in evTbl : r.event_id = id

\* C32: upsert_event is all-or-nothing for one event: the event row and the
\* replaced source rows become visible together, no reader sees an event
\* with only some of its sources replaced, and a call that fails at any
\* step leaves the event row and the source rows as they were.
C32_UpsertAllOrNothing ==
    [][/\ ReaderConsistent(events', sources')
       /\ (events' # events \/ sources' # sources) =>
             \E w \in Writers :
                /\ txn.conn[w].pc = "inserting" /\ txn'.conn[w].result = "true"
                /\ LET e == txn.conn[w].event[1]
                   IN /\ SelectPayload(events', e.event_id) = {Serialize(e)}
                      /\ SourceRowsOf(sources', e.event_id) = AllSourceRows(e)
                      /\ \A r \in events : r.event_id # e.event_id => r \in events'
                      /\ \A id \in DOMAIN sources : id # e.event_id => sources'[id] = sources[id]
       /\ \A w \in Writers :
             (txn.conn[w].pc # "done" /\ txn'.conn[w].result \in {"raised", "locked", "IntegrityError"})
                => (events' = events /\ sources' = sources)]_vars

\* C32 witness: an update that replaces two sources has inserted the first
\* of them and not yet the second
C32_Witness ==
    \E w \in Writers :
       /\ txn.conn[w].pc = "inserting" /\ txn.conn[w].existing # None
       /\ Len(txn.conn[w].event[1].sources) = 2 /\ txn.conn[w].todo = 2
       /\ Len(txn.conn[w].srcTbl[txn.conn[w].event[1].event_id]) = 1
       /\ Len(SourceRowsOf(sources, txn.conn[w].event[1].event_id)) = 1

\* the calls that have ended for an event_id
EndedFor(id) == {k \in DOMAIN txn.log : txn.log[k].event.event_id = id}

\* C33: concurrent upsert_event calls for one event_id have the outcome of
\* running them one after the other: neither fails because of the other,
\* and once they have ended there is one row for the event_id, with the
\* payload and the sources of one of the calls.
C33_ConcurrentUpsertsSerialize ==
    /\ \A k \in DOMAIN txn.log : txn.log[k].result \notin {"IntegrityError", "locked"}
    /\ (\A w \in Writers : txn.conn[w].pc \in {"idle", "done"}) =>
          \A id \in {txn.log[k].event.event_id : k \in {j \in DOMAIN txn.log : txn.log[j].result = "true"}} :
             \E k \in EndedFor(id) :
                /\ SelectPayload(events, id) = {Serialize(txn.log[k].event)}
                /\ SourceRowsOf(sources, id) = AllSourceRows(txn.log[k].event)

\* C34: health_check only discovers: it stores nothing and leaves the
\* tables as they were, its report has one entry per connector of the
\* registry, and a connector whose discovery raises is the only kind marked
\* unhealthy, the connectors after it being checked all the same.
C34_HealthCheckOnlyDiscovers ==
    report.kind = "health" =>
        /\ calls = <<>>
        /\ events = beforeRun.events
        /\ sources = beforeRun.sources
        /\ DOMAIN report.connectors = Connectors
        /\ \A c \in Connectors :
             report.connectors[c].status =
                 IF cond[c].kind = "raise" THEN "unhealthy" ELSE "healthy"
        /\ report.overall_status = "unhealthy" <=> \E c \in Connectors : cond[c].kind = "raise"

\* a health check over a non-empty database in which the first connector's
\* discovery raised and a later one's did not
C34_Witness ==
    /\ report.kind = "health"
    /\ events # {}
    /\ DOMAIN report.connectors = Connectors
    /\ report.connectors[Registry[1]].status = "unhealthy"
    /\ report.connectors[Registry[2]].status = "healthy"

\* C39: when an operation of the scheduler has returned, no connector of
\* the registry holds an open client.
C39_ClientsReleased ==
    report.kind # "none" => \A c \in Connectors : clients[c] = "none"

\* _is_recent_order(item, since) and _is_recent_action(item, since), the
\* only readers of since: both answer True for every item
IsRecent(item, since) == TRUE

\* the dates discover_items is asked for: one between the dates of the two
\* orders listed, one before both
Sinces == {Date(2024, 1, 20), Date(2023, 12, 1)}

\* C35: whatever since discover_items is called with, no item it returns
\* is dated before since.
C35_DiscoveredNotBeforeSince ==
    fu.pc = "discovered" =>
        \A since \in Sinces : \A i \in DOMAIN fu.items :
            LET item == fu.items[i]
            IN (IsRecent(item, since) /\ item.date # None) => DateLE(since, item.date[1])

\* C36: the event the pipeline makes of an item has confidence high when
\* the fetch of its detail retrieved a PDF text that is not empty, and
\* medium when it retrieved none.
C36_ConfidenceFollowsPdfText ==
    given.fn = "fetch_parse_normalize" =>
        \A i \in DOMAIN gave :
            gave[i].ret.confidence =
                IF given.page.detail = "ok" /\ given.page.pdf = "ok" /\ given.page.text.len > 0
                THEN "high" ELSE "medium"

\* the positions of the log at which a method is called, for one item or
\* for any
LoggedCalls(method) == {k \in DOMAIN fu.log : fu.log[k].call = method}
LoggedFor(i) == {k \in DOMAIN fu.log : fu.log[k].item = i}

\* C37: in one run of fetch_updates discover_items is called once, before
\* every fetch_item_detail; each item gets one fetch_item_detail, and when
\* the fetch of an item begins, the fetch, parse and normalize of the item
\* before it have all been made or one of them has failed.
C37_OneDiscoveryThenItemsInTurn ==
    fu.pc \in {"items", "done"} =>
        /\ LoggedCalls("discover_items") = {1}
        /\ \A i \in 1..Len(fu.items) :
             LET fetches == LoggedCalls("fetch_item_detail") \cap LoggedFor(i)
                 processed == i \in Range(fu.origin) \/ i \in Range(fu.failed)
             IN /\ Cardinality(fetches) = IF processed THEN 1 ELSE 0
                /\ \A k \in fetches : k > 1
                /\ \A k \in fetches : \A j \in 1..(i - 1) :
                      /\ j \in Range(fu.origin) \/ j \in Range(fu.failed)
                      /\ \A h \in LoggedFor(j) : h < k
                      /\ j \in Range(fu.origin) =>
                            \E h \in LoggedCalls("normalize_item") \cap LoggedFor(j) : h < k

\* C37 witness: two items were discovered, the parse of the first raised and
\* the second went through its three methods after that
C37_Witness ==
    /\ fu.pc = "done" /\ fu.result = "returned"
    /\ Len(fu.items) = 2
    /\ fu.failed = <<1>> /\ fu.origin = <<2>>
    /\ [k \in DOMAIN fu.log |-> fu.log[k].call] =
          <<"discover_items", "fetch_item_detail", "parse_item",
            "fetch_item_detail", "parse_item", "normalize_item">>

\* the i-th calendar month before the month of a date
MonthBefore(d, i) ==
    LET n == d[1] * 12 + (d[2] - 1) - i
    IN <<n \div 12, (n % 12) + 1>>

\* C40: on every current date the OCC connector's discover_items probes the
\* monthly release of each of the six calendar months before the current
\* one, each exactly once.
C40_SixPrecedingMonthsOnce ==
    (fu.pc = "discovered" /\ site.kind = "occ_enforcement") =>
        \A i \in 1..MonthsProbed :
            Cardinality({k \in DOMAIN fu.probed : fu.probed[k].ym = MonthBefore(site.today, i)}) = 1

====
